---- MODULE Spec2Model ----
(***************************************************************************)
(* A model of the core of archivist/substance: the NodeIndex kept by the   *)
(* data layer (src/src/data/node_index.js over                              *)
(* src/src/basics/path_adapter.js) and the text transformations            *)
(* insertText / deleteSelection (src/src/document/transformations).        *)
(*                                                                         *)
(* Nine specifications share the module:                                   *)
(*   SpecIndex       the document feeding create / delete / update         *)
(*                   notifications to one NodeIndex;                       *)
(*   SpecIndexCalls  the methods of one NodeIndex called with any node;    *)
(*   Spec            a document of text nodes with property annotations,   *)
(*                   edited through insertText and deleteSelection;        *)
(*   SpecContainer   the same over a container of up to four nodes, with   *)
(*                   container annotations;                                *)
(*   SpecEmitter     one EventEmitter (src/unnamed/part_001);              *)
(*   SpecTx          insertText run step by step inside a transaction;     *)
(*   SpecPath        one PathAdapter or PathAdapter.Arrays;                *)
(*   SpecSchema      one Schema and its node factory (src/unnamed/part_000);*)
(*   SpecSurface     one SurfaceManager and its surfaces                   *)
(*                   (src/unnamed/part_000).                               *)
(***************************************************************************)
EXTENDS Integers, Sequences, FiniteSets, TLC

VARIABLES
  nodes,      \* SpecIndex: the document's nodes, id -> [type, title, tags]
  index,      \* SpecIndex: NodeIndex.index, the two-level PathAdapter
  indexType,  \* SpecIndex: NodeIndex.type ("" when the index selects all nodes)
  indexErr,   \* SpecIndex: the error the last notification raised ("" for none)
  icall,      \* SpecIndexCalls: the last call on the index and what it did
  container,  \* Spec: the node ids of container 'main', in display order
  content,    \* Spec: text node id -> [type, def, s]: its content property
  annos,      \* Spec: annotation id -> [path, startOffset, endOffset]
  cannos,     \* SpecContainer: container annotation id ->
              \*   [startPath, startOffset, endPath, endOffset]
  last,       \* Spec: the last transformation call: arguments, state before, result
  events,     \* SpecEmitter: EventEmitter.__events__, event -> list of bindings
  regCount,   \* SpecEmitter: the number of bindings registered so far
  call,       \* SpecEmitter: the last call on the emitter and what it did
  tx,         \* SpecTx: the transaction in progress: position, stage document
  seen,       \* SpecTx: the documents the index and the listeners were shown
  adapter,    \* SpecPath: "plain" for a PathAdapter, "arrays" for PathAdapter.Arrays
  store,      \* SpecPath: the root object of the adapter
  pcall,      \* SpecPath: the last call on the adapter and what it did
  registry,   \* SpecSchema: the node factory: class name -> registered class
  tocTypes,   \* SpecSchema: Schema.tocTypes
  scall,      \* SpecSchema: the last addNodes call and what it did
  surfaces,   \* SpecSurface: SurfaceManager.surfaces, name -> surface
  focusedSurface, \* SpecSurface: SurfaceManager.focusedSurface ("" for null)
  surf,       \* SpecSurface: surface -> [focused, selection], the surfaces' own state
  mcall       \* SpecSurface: the last call on the manager and the state before it

indexVars == <<nodes, index, indexType, indexErr, icall>>

docVars == <<container, content, annos, cannos, last>>

emitterVars == <<events, regCount, call>>

txVars == <<tx, seen>>

storeVars == <<adapter, store, pcall>>

schemaVars == <<registry, tocTypes, scall>>

surfaceVars == <<surfaces, focusedSurface, surf, mcall>>

vars ==
  <<nodes, index, indexType, indexErr, icall, container, content, annos, cannos, last,
    events, regCount, call, tx, seen, adapter, store, pcall, registry, tocTypes,
    scall, surfaces, focusedSurface, surf, mcall>>

\* the specifications without an emitter leave its variables at these values
NoEmitter ==
  /\ events = <<>>
  /\ regCount = 0
  /\ call = <<>>

\* the specifications without a PathAdapter of their own leave its variables
\* at these values
NoAdapter ==
  /\ adapter = ""
  /\ store = <<>>
  /\ pcall = <<>>

\* the specifications without a schema leave its variables at these values
NoSchema ==
  /\ registry = <<>>
  /\ tocTypes = <<>>
  /\ scall = <<>>

\* the specifications without a surface manager leave its variables at these
\* values
NoSurfaces ==
  /\ surfaces = <<>>
  /\ focusedSurface = ""
  /\ surf = <<>>
  /\ mcall = <<>>

\* no transaction: nothing staged, nothing shown to index or listeners
IdleTx == [pc |-> "idle", d |-> <<>>, sel |-> <<>>, text |-> <<>>, err |-> ""]

NothingSeen == [index |-> <<>>, listeners |-> <<>>, pre |-> <<>>]

\* the specifications without transactions leave their variables at these values
NoTransaction ==
  /\ tx = IdleTx
  /\ seen = NothingSeen

(***************************************************************************)
(* Bounds and value sets                                                   *)
(***************************************************************************)
\* the longest array an indexed property holds
MaxArr == 2

NodeIds == {"n1", "n2"}
Types == {"t1", "t2"}
Values == {"a", "b"}
Titles == {"t", "u"}
NoType == ""
NoErr == ""

\* sequences over S of length at most n
SeqsUpTo(S, n) == UNION {[1..k -> S] : k \in 0..n}

\* A property value as JavaScript holds it: a scalar (arr = FALSE, vs of
\* length one) or an array (arr = TRUE), duplicates allowed.
PropValues ==
  {[arr |-> FALSE, vs |-> <<v>>] : v \in Values}
    \cup {[arr |-> TRUE, vs |-> s] : s \in SeqsUpTo(Values, MaxArr)}

NodeRecs == [type : Types, title : Titles, tags : PropValues]

(***************************************************************************)
(* PathAdapter on the two-level paths [value, id] the index uses.          *)
(* buckets: the first-level keys that exist (possibly holding {});          *)
(* ent: the <<value, id>> leaves.                                          *)
(***************************************************************************)
EmptyIndex == [buckets |-> {}, ent |-> {}]

\* PathAdapter.set([v, id], node): _resolve(path, true) creates the bucket
PASet(idx, v, id) ==
  [buckets |-> idx.buckets \cup {v}, ent |-> idx.ent \cup {<<v, id>>}]

\* PathAdapter.delete([v, id]) as the index calls it (strict omitted):
\* `strict && !obj || !obj[key]` throws a TypeError when the bucket is
\* missing and 'Invalid path.' when the leaf is missing.
PADeleteErr(idx, v, id) ==
  IF v \notin idx.buckets THEN "TypeError"
  ELSE IF <<v, id>> \notin idx.ent THEN "InvalidPath"
  ELSE NoErr

PADelete(idx, v, id) ==
  [buckets |-> idx.buckets, ent |-> idx.ent \ {<<v, id>>}]

\* NodeIndex.get([v]): this.index.get(path) || {}
IndexGet(idx, v) == {id \in NodeIds : <<v, id>> \in idx.ent}

(***************************************************************************)
(* NodeIndex                                                               *)
(***************************************************************************)
\* if (!Substance.isArray(values)) values = [values]
AsArray(p) == IF p.arr THEN p.vs ELSE <<p.vs[1]>>

\* NodeIndex.select: no type configured, or node.isInstanceOf(type)
Select(type, node) == type = NoType \/ node.type = type

\* Substance.each(values, v => index.set([v, id], node))
RECURSIVE SetEach(_, _, _)
SetEach(idx, vs, id) ==
  IF vs = <<>> THEN idx
  ELSE SetEach(PASet(idx, Head(vs), id), Tail(vs), id)

\* Substance.each(values, v => index.delete([v, id])): the first failing
\* delete throws and ends the loop; r.err is the error, r.idx what is left.
RECURSIVE DeleteEach(_, _, _)
DeleteEach(idx, vs, id) ==
  IF vs = <<>> THEN [idx |-> idx, err |-> NoErr]
  ELSE IF PADeleteErr(idx, Head(vs), id) # NoErr
       THEN [idx |-> idx, err |-> PADeleteErr(idx, Head(vs), id)]
  ELSE DeleteEach(PADelete(idx, Head(vs), id), Tail(vs), id)

\* NodeIndex.create(node)
IndexCreate(idx, id, node) ==
  [idx |-> SetEach(idx, AsArray(node.tags), id), err |-> NoErr]

\* NodeIndex.delete(node)
IndexDelete(idx, id, node) == DeleteEach(idx, AsArray(node.tags), id)

\* NodeIndex.update inserting under newValue before it removes under oldValue
IndexUpdate_SetFirst(idx, type, id, node, prop, newValue, oldValue) ==
  IF ~Select(type, node) \/ prop # "tags" THEN [idx |-> idx, err |-> NoErr]
  ELSE DeleteEach(SetEach(idx, AsArray(newValue), id), AsArray(oldValue), id)

\* NodeIndex.update(node, path, newValue, oldValue); prop is path[1]
IndexUpdate(idx, type, id, node, prop, newValue, oldValue) ==
  IF ~Select(type, node) \/ prop # "tags" THEN [idx |-> idx, err |-> NoErr]
  ELSE LET d == DeleteEach(idx, AsArray(oldValue), id)
       IN IF d.err # NoErr THEN d
          ELSE [idx |-> SetEach(d.idx, AsArray(newValue), id), err |-> NoErr]

\* NodeIndex.reset(data): clear, then create every selected node
RECURSIVE Initialize(_, _, _, _)
Initialize(idx, type, ns, ids) ==
  IF ids = {} THEN idx
  ELSE LET id == CHOOSE i \in ids : TRUE
       IN Initialize(IF Select(type, ns[id])
                       THEN IndexCreate(idx, id, ns[id]).idx
                       ELSE idx,
                     type, ns, ids \ {id})

IndexReset(type, ns) == Initialize(EmptyIndex, type, ns, DOMAIN ns)

(***************************************************************************)
(* SpecIndex: the document notifies the index of every node creation,      *)
(* deletion and property change.  As NodeIndex._initialize does, the       *)
(* document hands create and delete only the nodes the index selects;      *)
(* update checks select itself.                                            *)
(***************************************************************************)
InitIndex ==
  /\ nodes = <<>>
  /\ index = EmptyIndex
  /\ indexType \in {NoType, "t1"}
  /\ indexErr = NoErr
  /\ icall = <<>>
  /\ container = <<>>
  /\ content = <<>>
  /\ annos = <<>>
  /\ cannos = <<>>
  /\ last = <<>>
  /\ NoEmitter
  /\ NoTransaction
  /\ NoAdapter
  /\ NoSchema
  /\ NoSurfaces

\* Document.create(node): add the node, then notify
DocCreate(id, rec) ==
  /\ id \notin DOMAIN nodes
  /\ nodes' = nodes @@ (id :> rec)
  /\ LET r == IF Select(indexType, rec)
                THEN IndexCreate(index, id, rec)
                ELSE [idx |-> index, err |-> NoErr]
     IN index' = r.idx /\ indexErr' = r.err
  /\ UNCHANGED <<indexType, icall, docVars, emitterVars, txVars, storeVars, schemaVars, surfaceVars>>

\* Document.delete(id): remove the node, then notify
DocDelete(id) ==
  /\ id \in DOMAIN nodes
  /\ nodes' = [i \in DOMAIN nodes \ {id} |-> nodes[i]]
  /\ LET r == IF Select(indexType, nodes[id])
                THEN IndexDelete(index, id, nodes[id])
                ELSE [idx |-> index, err |-> NoErr]
     IN index' = r.idx /\ indexErr' = r.err
  /\ UNCHANGED <<indexType, icall, docVars, emitterVars, txVars, storeVars, schemaVars, surfaceVars>>

\* Document.set([id, "tags"], v): change the indexed property, then notify
DocSetTags(id, v) ==
  /\ id \in DOMAIN nodes
  /\ nodes' = [nodes EXCEPT ![id].tags = v]
  /\ LET r == IndexUpdate(index, indexType, id, nodes'[id], "tags", v,
                          nodes[id].tags)
     IN index' = r.idx /\ indexErr' = r.err
  /\ UNCHANGED <<indexType, icall, docVars, emitterVars, txVars, storeVars, schemaVars, surfaceVars>>

\* Document.set([id, "title"], t): change another property, then notify
DocSetTitle(id, t) ==
  /\ id \in DOMAIN nodes
  /\ nodes' = [nodes EXCEPT ![id].title = t]
  /\ LET r == IndexUpdate(index, indexType, id, nodes'[id], "title", t,
                          nodes[id].title)
     IN index' = r.idx /\ indexErr' = r.err
  /\ UNCHANGED <<indexType, icall, docVars, emitterVars, txVars, storeVars, schemaVars, surfaceVars>>

\* NodeIndex.reset(document)
DocReset ==
  /\ index' = IndexReset(indexType, nodes)
  /\ indexErr' = NoErr
  /\ UNCHANGED <<nodes, indexType, icall, docVars, emitterVars, txVars, storeVars, schemaVars, surfaceVars>>

NextIndex ==
  \/ \E id \in NodeIds, rec \in NodeRecs : DocCreate(id, rec)
  \/ \E id \in NodeIds : DocDelete(id)
  \/ \E id \in NodeIds, v \in PropValues : DocSetTags(id, v)
  \/ \E id \in NodeIds, t \in Titles : DocSetTitle(id, t)
  \/ DocReset

SpecIndex == InitIndex /\ [][NextIndex]_vars

\* the ids index.get([v]) must hold: the existing, selected nodes whose
\* indexed property equals or contains v
Expected(v) ==
  {id \in DOMAIN nodes :
     /\ Select(indexType, nodes[id])
     /\ \E i \in 1..Len(AsArray(nodes[id].tags)) : AsArray(nodes[id].tags)[i] = v}

\* C1: after every create / delete / update notification, index.get([v]) is
\* exactly the set of existing, selected nodes whose indexed property equals
\* or contains v, which is what reset(document) rebuilds.
C1_IndexInSync ==
  /\ \A v \in Values : IndexGet(index, v) = Expected(v)
  /\ \A v \in Values : IndexGet(index, v) = IndexGet(IndexReset(indexType, nodes), v)

(***************************************************************************)
(* Documents of text nodes.  A document d is                               *)
(*   [container, content, annos, cannos]:                                  *)
(* the ids of container 'main' in order, each text node's content         *)
(* property [type, def, s] (def = FALSE: the property is undefined), the   *)
(* property annotations [path, startOffset, endOffset] and the container   *)
(* annotations [startPath, startOffset, endPath, endOffset].               *)
(***************************************************************************)
\* the longest text a content property holds
MaxLen == 3

\* the longest text a content property holds at the start of SpecContainer
MaxCLen == 2

CAnnoIds == {"a1"}

TextIds == {"p1", "p2", "p3", "p4"}
AnnoIds == {"em1", "em2"}
MainId == "main"
NoContainer == ""
DefaultTextType == "paragraph"

Path(id) == <<id, "content">>
NoPath == <<"", "">>

\* tx.get(path) of a content property; undefined reads as the empty text
\* wherever the code takes a length or splices
TextAt(d, path) == d.content[path[1]].s

\* the position of the node owning path in the container (0: not in it)
PosOf(d, path) ==
  IF \E i \in 1..Len(d.container) : d.container[i] = path[1]
    THEN CHOOSE i \in 1..Len(d.container) : d.container[i] = path[1]
    ELSE 0

(***************************************************************************)
(* Selections: tx.createSelection(descriptor).  A property selection has   *)
(* startPath = endPath; kind "null" is the null selection object and kind  *)
(* "none" a missing argument.                                              *)
(***************************************************************************)
PropertySel(path, s, e) ==
  [kind |-> "property", containerId |-> NoContainer,
   startPath |-> path, startOffset |-> s, endPath |-> path, endOffset |-> e]

ContainerSel(sp, s, ep, e) ==
  [kind |-> "container", containerId |-> MainId,
   startPath |-> sp, startOffset |-> s, endPath |-> ep, endOffset |-> e]

NullSel ==
  [kind |-> "null", containerId |-> NoContainer,
   startPath |-> NoPath, startOffset |-> 0, endPath |-> NoPath, endOffset |-> 0]

NoSel ==
  [kind |-> "none", containerId |-> NoContainer,
   startPath |-> NoPath, startOffset |-> 0, endPath |-> NoPath, endOffset |-> 0]

IsPropertySelection(sel) == sel.kind = "property"
IsContainerSelection(sel) == sel.kind = "container"

\* Selection.isCollapsed(): the start equals the end
IsCollapsed(sel) ==
  sel.startPath = sel.endPath /\ sel.startOffset = sel.endOffset

(***************************************************************************)
(* Transaction operations on text                                          *)
(***************************************************************************)
\* tx.update(path, {insert: {offset: o, value: x}})
InsertAt(T, o, x) ==
  [i \in 1..(Len(T) + Len(x)) |->
     IF i <= o THEN T[i]
     ELSE IF i <= o + Len(x) THEN x[i - o]
     ELSE T[i - Len(x)]]

\* tx.update(path, {delete: {start: s, end: e}})
DeleteRange(T, s, e) ==
  [i \in 1..(Len(T) - (e - s)) |-> IF i <= s THEN T[i] ELSE T[i + (e - s)]]

TxSetText(d, path, T) ==
  [d EXCEPT !.content[path[1]].def = TRUE, !.content[path[1]].s = T]

(***************************************************************************)
(* Annotation updates                                                      *)
(***************************************************************************)
\* Annotations.insertedText(tx, {path, offset: o}, n): an annotation at or
\* after o moves right by n; one whose range contains o (starts before o,
\* ends at or after o) grows by n; one ending before o is untouched.
InsertedAnno(an, o, n) ==
  [an EXCEPT !.startOffset = IF o <= an.startOffset THEN @ + n ELSE @,
             !.endOffset = IF o <= an.endOffset THEN @ + n ELSE @]

InsertedText(as, path, o, n) ==
  [k \in DOMAIN as |->
     IF as[k].path = path THEN InsertedAnno(as[k], o, n) ELSE as[k]]

\* insertedText on an anchor (path, off) of a container annotation: it
\* moves as the offsets of a property annotation do
InsertedAnchor(path, off, p, o, n) ==
  IF path = p /\ o <= off THEN off + n ELSE off

InsertedContainerAnnos(cas, p, o, n) ==
  [k \in DOMAIN cas |->
     [cas[k] EXCEPT
        !.startOffset = InsertedAnchor(cas[k].startPath, @, p, o, n),
        !.endOffset = InsertedAnchor(cas[k].endPath, @, p, o, n)]]

\* an anchor (path, off) after [s, e) of the text at p is deleted: kept
\* up to s, clamped to s inside the range, moved left behind it
DeletedAnchor(path, off, p, s, e) ==
  IF path # p \/ off <= s THEN off
  ELSE IF off <= e THEN s
  ELSE off - (e - s)

\* the container annotations after [s, e) of the text at p is deleted;
\* one with both anchors inside the range is deleted
DeletedContainerAnnos(cas, p, s, e) ==
  LET gone == {k \in DOMAIN cas :
                 /\ s < e
                 /\ cas[k].startPath = p /\ cas[k].endPath = p
                 /\ s <= cas[k].startOffset /\ cas[k].endOffset <= e}
  IN [k \in DOMAIN cas \ gone |->
        [cas[k] EXCEPT
           !.startOffset = DeletedAnchor(cas[k].startPath, @, p, s, e),
           !.endOffset = DeletedAnchor(cas[k].endPath, @, p, s, e)]]

\* the case of annotation [a, b) against the deleted range [s, e)
DeleteCase(a, b, s, e) ==
  IF b <= s THEN "before"
  ELSE IF e <= a THEN "after"
  ELSE IF s <= a /\ b <= e THEN "inside"
  ELSE IF a < s /\ b <= e THEN "overlapStart"
  ELSE IF s <= a /\ e < b THEN "overlapEnd"
  ELSE "spanning"

\* DeletedAnno with an annotation after the range moving only its start
DeletedAnno_AfterKeepsEnd(an, s, e) ==
  LET c == DeleteCase(an.startOffset, an.endOffset, s, e)
  IN CASE c = "after" -> [an EXCEPT !.startOffset = @ - (e - s)]
       [] c = "overlapStart" -> [an EXCEPT !.endOffset = s]
       [] c = "overlapEnd" ->
            [an EXCEPT !.startOffset = s, !.endOffset = @ - (e - s)]
       [] c = "spanning" -> [an EXCEPT !.endOffset = @ - (e - s)]
       [] OTHER -> an

\* DeletedAnno with the end overlap shifted but its start not clamped
DeletedAnno_OverlapEndKeepsStart(an, s, e) ==
  LET c == DeleteCase(an.startOffset, an.endOffset, s, e)
  IN CASE c = "after" ->
            [an EXCEPT !.startOffset = @ - (e - s), !.endOffset = @ - (e - s)]
       [] c = "overlapStart" -> [an EXCEPT !.endOffset = s]
       [] c = "overlapEnd" -> [an EXCEPT !.endOffset = @ - (e - s)]
       [] c = "spanning" -> [an EXCEPT !.endOffset = @ - (e - s)]
       [] OTHER -> an

\* DeletedAnno with the spanning case clamped like a start overlap
DeletedAnno_SpanningClamps(an, s, e) ==
  LET c == DeleteCase(an.startOffset, an.endOffset, s, e)
  IN CASE c = "after" ->
            [an EXCEPT !.startOffset = @ - (e - s), !.endOffset = @ - (e - s)]
       [] c = "overlapStart" -> [an EXCEPT !.endOffset = s]
       [] c = "overlapEnd" ->
            [an EXCEPT !.startOffset = s, !.endOffset = @ - (e - s)]
       [] c = "spanning" -> [an EXCEPT !.endOffset = s]
       [] OTHER -> an

\* the annotation after the deletion of [s, e) (case "inside": deleted)
DeletedAnno(an, s, e) ==
  LET c == DeleteCase(an.startOffset, an.endOffset, s, e)
  IN CASE c = "before" -> an
       [] c = "after" ->
            [an EXCEPT !.startOffset = @ - (e - s), !.endOffset = @ - (e - s)]
       [] c = "overlapStart" -> [an EXCEPT !.endOffset = s]
       [] c = "overlapEnd" ->
            [an EXCEPT !.startOffset = s, !.endOffset = @ - (e - s)]
       [] c = "spanning" -> [an EXCEPT !.endOffset = @ - (e - s)]
       [] OTHER -> an

\* DeletedText keeping the annotations inside the range, collapsed at s
DeletedText_KeepsInside(as, path, s, e) ==
  [k \in DOMAIN as |->
     IF as[k].path = path /\ s < e
       THEN IF DeleteCase(as[k].startOffset, as[k].endOffset, s, e) = "inside"
              THEN [as[k] EXCEPT !.startOffset = s, !.endOffset = s]
              ELSE DeletedAnno(as[k], s, e)
       ELSE as[k]]

\* the annotations after [s, e) of the text at path is deleted
DeletedText(as, path, s, e) ==
  LET gone == {k \in DOMAIN as :
                 /\ as[k].path = path
                 /\ s < e
                 /\ DeleteCase(as[k].startOffset, as[k].endOffset, s, e) = "inside"}
  IN [k \in DOMAIN as \ gone |->
        IF as[k].path = path /\ s < e THEN DeletedAnno(as[k], s, e) ELSE as[k]]

(***************************************************************************)
(* deleteSelection(tx, {selection, containerId, direction})                *)
(* Every result is [d, sel, err]: the document, the returned selection and *)
(* the error raised ("" for none; the document is then left as it was).    *)
(***************************************************************************)
\* DeleteProperty returning the cursor at the start of the text
DeleteProperty_CollapseAtZero(d, sel) ==
  LET path == sel.startPath
      s == sel.startOffset
      e == sel.endOffset
  IN [d |-> [d EXCEPT !.content[path[1]].s = DeleteRange(@, s, e),
                      !.annos = DeletedText(@, path, s, e),
                      !.cannos = DeletedContainerAnnos(@, path, s, e)],
      sel |-> PropertySel(path, 0, 0),
      err |-> NoErr]

\* Case A: a property selection [s, e) on one text property
DeleteProperty(d, sel) ==
  LET path == sel.startPath
      s == sel.startOffset
      e == sel.endOffset
  IN [d |-> [d EXCEPT !.content[path[1]].s = DeleteRange(@, s, e),
                      !.annos = DeletedText(@, path, s, e),
                      !.cannos = DeletedContainerAnnos(@, path, s, e)],
      sel |-> PropertySel(path, s, s),
      err |-> NoErr]

\* an anchor of a container annotation lies on one of the nodes at
\* container positions i1..ik
OnNodes(d, i1, ik, path) == PosOf(d, path) \in i1..ik

\* the container annotations after the nodes at positions i1..ik are
\* replaced by the new node: one with both anchors on them is deleted, an
\* anchor on them moves to offset 0 of the new node
CoveredContainerAnnos(d, i1, ik, newId) ==
  LET cas == d.cannos
      gone == {k \in DOMAIN cas :
                 /\ OnNodes(d, i1, ik, cas[k].startPath)
                 /\ OnNodes(d, i1, ik, cas[k].endPath)}
  IN [k \in DOMAIN cas \ gone |->
        [startPath |-> IF OnNodes(d, i1, ik, cas[k].startPath)
                         THEN Path(newId) ELSE cas[k].startPath,
         startOffset |-> IF OnNodes(d, i1, ik, cas[k].startPath)
                           THEN 0 ELSE cas[k].startOffset,
         endPath |-> IF OnNodes(d, i1, ik, cas[k].endPath)
                       THEN Path(newId) ELSE cas[k].endPath,
         endOffset |-> IF OnNodes(d, i1, ik, cas[k].endPath)
                         THEN 0 ELSE cas[k].endOffset]]

\* the document after the nodes at positions i1..ik are replaced by one
\* empty node newId of type ty at container position pos
CoveredDoc(d, i1, ik, newId, ty, pos) ==
  LET c == d.container
      removed == {c[i] : i \in i1..ik}
      rest == SubSeq(c, 1, i1 - 1) \o SubSeq(c, ik + 1, Len(c))
  IN [container |-> SubSeq(rest, 1, pos - 1) \o <<newId>>
                      \o SubSeq(rest, pos, Len(rest)),
      content |-> [id \in (DOMAIN d.content \ removed) \cup {newId} |->
                     IF id = newId
                       THEN [type |-> ty, def |-> TRUE, s |-> <<>>]
                       ELSE d.content[id]],
      annos |-> [k \in {j \in DOMAIN d.annos : d.annos[j].path[1] \notin removed}
                   |-> d.annos[k]],
      cannos |-> CoveredContainerAnnos(d, i1, ik, newId)]

\* the id of the node tx.create makes: one the document does not hold
NewId(d) == CHOOSE id \in TextIds : id \notin DOMAIN d.content

\* DeleteFullyCovered appending the new node to the container
DeleteFullyCovered_Appends(d, i1, ik) ==
  [d |-> CoveredDoc(d, i1, ik, NewId(d), DefaultTextType,
                    Len(d.container) - (ik - i1)),
   sel |-> PropertySel(Path(NewId(d)), 0, 0),
   err |-> NoErr]

\* Case B, edge case: every selected node is fully covered.  The nodes at
\* container positions i1..ik go, with the annotations on them, and one
\* empty node of the default text type takes the place of the first.
DeleteFullyCovered(d, i1, ik) ==
  [d |-> CoveredDoc(d, i1, ik, NewId(d), DefaultTextType, i1),
   sel |-> PropertySel(Path(NewId(d)), 0, 0),
   err |-> NoErr]

\* the anchor (path, off) lies in the span from (N1, s) to (Nk, e)
InSpan(d, i1, ik, s, e, path, off) ==
  LET i == PosOf(d, path)
  IN /\ i > i1 \/ (i = i1 /\ off >= s)
     /\ i < ik \/ (i = ik /\ off <= e)

\* an anchor after the span from (N1, s) to (Nk, e) is deleted: <<path,
\* offset>>.  Inside the span it moves to (N1, s), the surviving boundary;
\* behind e on Nk it moves with the tail of Nk into N1.
MergedAnchor(d, i1, ik, s, e, path, off) ==
  IF InSpan(d, i1, ik, s, e, path, off) THEN <<Path(d.container[i1]), s>>
  ELSE IF PosOf(d, path) = ik /\ off > e
    THEN <<Path(d.container[i1]), off - e + s>>
  ELSE <<path, off>>

\* the container annotations after the span is deleted: one with both
\* anchors inside the span is deleted
MergedContainerAnnos(d, i1, ik, s, e) ==
  LET cas == d.cannos
      gone == {k \in DOMAIN cas :
                 /\ InSpan(d, i1, ik, s, e, cas[k].startPath, cas[k].startOffset)
                 /\ InSpan(d, i1, ik, s, e, cas[k].endPath, cas[k].endOffset)}
  IN [k \in DOMAIN cas \ gone |->
        LET st == MergedAnchor(d, i1, ik, s, e, cas[k].startPath, cas[k].startOffset)
            en == MergedAnchor(d, i1, ik, s, e, cas[k].endPath, cas[k].endOffset)
        IN [startPath |-> st[1], startOffset |-> st[2],
            endPath |-> en[1], endOffset |-> en[2]]]

\* MergedContainerAnnos deleting every annotation with an anchor in the span
MergedContainerAnnos_DropsTruncated(d, i1, ik, s, e) ==
  LET cas == d.cannos
      gone == {k \in DOMAIN cas :
                 \/ InSpan(d, i1, ik, s, e, cas[k].startPath, cas[k].startOffset)
                 \/ InSpan(d, i1, ik, s, e, cas[k].endPath, cas[k].endOffset)}
  IN [k \in DOMAIN cas \ gone |->
        LET st == MergedAnchor(d, i1, ik, s, e, cas[k].startPath, cas[k].startOffset)
            en == MergedAnchor(d, i1, ik, s, e, cas[k].endPath, cas[k].endOffset)
        IN [startPath |-> st[1], startOffset |-> st[2],
            endPath |-> en[1], endOffset |-> en[2]]]

\* the property annotations after the span is deleted.  Those on N1 follow
\* Case A for [s, len(N1)); those on Nk follow Case A for [0, e) and move
\* to N1, shift to the right; those on the nodes in between are deleted.
MergedAnnos(d, i1, ik, s, e, shift) ==
  LET c == d.container
      p1 == Path(c[i1])
      pk == Path(c[ik])
      between == {c[i] : i \in (i1 + 1)..(ik - 1)}
      a1 == DeletedText(d.annos, p1, s, Len(TextAt(d, p1)))
      a2 == DeletedText(a1, pk, 0, e)
      keep == {k \in DOMAIN a2 : a2[k].path[1] \notin between}
  IN [k \in keep |->
        IF a2[k].path = pk
          THEN [a2[k] EXCEPT !.path = p1,
                             !.startOffset = @ + shift,
                             !.endOffset = @ + shift]
          ELSE a2[k]]

\* the document after the span is deleted: N1 holds text T, the nodes after
\* N1 up to Nk leave the container and the document
MergedDoc(d, i1, ik, T, as, cas) ==
  LET c == d.container
      removed == {c[i] : i \in (i1 + 1)..ik}
  IN [container |-> SubSeq(c, 1, i1) \o SubSeq(c, ik + 1, Len(c)),
      content |-> [id \in DOMAIN d.content \ removed |->
                     IF id = c[i1]
                       THEN [d.content[id] EXCEPT !.def = TRUE, !.s = T]
                       ELSE d.content[id]],
      annos |-> as,
      cannos |-> cas]

\* the head of N1 up to s followed by the tail of Nk from e
MergedText(d, i1, ik, s, e) ==
  LET T1 == TextAt(d, Path(d.container[i1]))
      Tk == TextAt(d, Path(d.container[ik]))
  IN InsertAt(DeleteRange(T1, s, Len(T1)), s, DeleteRange(Tk, 0, e))

\* DeleteMerge losing the tail of Nk
DeleteMerge_DropsTail(d, i1, ik, s, e) ==
  LET T1 == TextAt(d, Path(d.container[i1]))
  IN [d |-> MergedDoc(d, i1, ik, DeleteRange(T1, s, Len(T1)),
                      MergedAnnos(d, i1, ik, s, Len(TextAt(d, Path(d.container[ik]))), s),
                      MergedContainerAnnos(d, i1, ik, s, e)),
      sel |-> PropertySel(Path(d.container[i1]), s, s),
      err |-> NoErr]

\* DeleteMerge moving the annotations of Nk to N1 without the shift by s
DeleteMerge_NoShift(d, i1, ik, s, e) ==
  [d |-> MergedDoc(d, i1, ik, MergedText(d, i1, ik, s, e),
                   MergedAnnos(d, i1, ik, s, e, 0),
                   MergedContainerAnnos(d, i1, ik, s, e)),
   sel |-> PropertySel(Path(d.container[i1]), s, s),
   err |-> NoErr]

\* DeleteMerge deleting the container annotations the deletion truncates
DeleteMerge_DropsTruncated(d, i1, ik, s, e) ==
  [d |-> MergedDoc(d, i1, ik, MergedText(d, i1, ik, s, e),
                   MergedAnnos(d, i1, ik, s, e, s),
                   MergedContainerAnnos_DropsTruncated(d, i1, ik, s, e)),
   sel |-> PropertySel(Path(d.container[i1]), s, s),
   err |-> NoErr]

\* Case B, otherwise: the head of N1 and the tail of Nk are merged into N1,
\* the nodes after N1 up to Nk leave the container and the document, the
\* annotations are reconciled, the cursor is at s in N1.
DeleteMerge(d, i1, ik, s, e) ==
  [d |-> MergedDoc(d, i1, ik, MergedText(d, i1, ik, s, e),
                   MergedAnnos(d, i1, ik, s, e, s),
                   MergedContainerAnnos(d, i1, ik, s, e)),
   sel |-> PropertySel(Path(d.container[i1]), s, s),
   err |-> NoErr]

\* Case B: a container selection from (N1, s) to (Nk, e)
DeleteContainer(d, sel) ==
  LET i1 == PosOf(d, sel.startPath)
      ik == PosOf(d, sel.endPath)
      s == sel.startOffset
      e == sel.endOffset
  IN IF s = 0 /\ e = Len(TextAt(d, sel.endPath))
       THEN DeleteFullyCovered(d, i1, ik)
     ELSE IF i1 = ik
       THEN [DeleteProperty(d, sel) EXCEPT !.sel = PropertySel(sel.startPath, s, s)]
     ELSE DeleteMerge(d, i1, ik, s, e)

\* DeleteSelection deleting the character right of a collapsed selection
DeleteSelection_CollapsedDeletesChar(d, sel, cid) ==
  IF ~(IsPropertySelection(sel) \/ IsContainerSelection(sel))
    THEN [d |-> d, sel |-> sel, err |-> "InvalidSelection"]
  ELSE IF IsCollapsed(sel)
    THEN IF sel.startOffset < Len(TextAt(d, sel.startPath))
           THEN DeleteProperty(d, PropertySel(sel.startPath, sel.startOffset,
                                              sel.startOffset + 1))
           ELSE [d |-> d, sel |-> sel, err |-> NoErr]
  ELSE IF IsPropertySelection(sel) THEN DeleteProperty(d, sel)
  ELSE IF cid = NoContainer
    THEN [d |-> d, sel |-> sel, err |-> "MissingContainer"]
  ELSE DeleteContainer(d, sel)

\* deleteSelection: collapsed selections are returned as they are
DeleteSelection(d, sel, cid) ==
  IF ~(IsPropertySelection(sel) \/ IsContainerSelection(sel))
    THEN [d |-> d, sel |-> sel, err |-> "InvalidSelection"]
  ELSE IF IsCollapsed(sel) THEN [d |-> d, sel |-> sel, err |-> NoErr]
  ELSE IF IsPropertySelection(sel) THEN DeleteProperty(d, sel)
  ELSE IF cid = NoContainer
    THEN [d |-> d, sel |-> sel, err |-> "MissingContainer"]
  ELSE DeleteContainer(d, sel)

(***************************************************************************)
(* insertText(tx, {selection, text}); args.containerId is not read         *)
(***************************************************************************)
\* InsertAtCursor without the tx.update of line 32
InsertAtCursor_NoSplice(d, sel, x) ==
  LET path == sel.startPath
      o == sel.startOffset
      d1 == IF d.content[path[1]].def THEN d ELSE TxSetText(d, path, <<>>)
  IN [d |-> [d1 EXCEPT !.annos = InsertedText(@, path, o, Len(x)),
                       !.cannos = InsertedContainerAnnos(@, path, o, Len(x))],
      sel |-> PropertySel(path, o + Len(x), o + Len(x)),
      err |-> NoErr]

\* InsertAtCursor handing insertedText the offset behind the inserted text
InsertAtCursor_ShiftAfter(d, sel, x) ==
  LET path == sel.startPath
      o == sel.startOffset
      d1 == IF d.content[path[1]].def THEN d ELSE TxSetText(d, path, <<>>)
      d2 == [d1 EXCEPT !.content[path[1]].s = InsertAt(@, o, x)]
  IN [d |-> [d2 EXCEPT !.annos = InsertedText(@, path, o + Len(x), Len(x)),
                       !.cannos = InsertedContainerAnnos(@, path, o + Len(x), Len(x))],
      sel |-> PropertySel(path, o + Len(x), o + Len(x)),
      err |-> NoErr]

\* insert_text.js lines 26-40: the splice at the collapsed selection
InsertAtCursor(d, sel, x) ==
  LET path == sel.startPath
      o == sel.startOffset
      d1 == IF d.content[path[1]].def THEN d ELSE TxSetText(d, path, <<>>)
      d2 == [d1 EXCEPT !.content[path[1]].s = InsertAt(@, o, x)]
  IN [d |-> [d2 EXCEPT !.annos = InsertedText(@, path, o, Len(x)),
                       !.cannos = InsertedContainerAnnos(@, path, o, Len(x))],
      sel |-> PropertySel(path, o + Len(x), o + Len(x)),
      err |-> NoErr]

\* InsertText without the check of args.text (lines 12-14)
InsertText_NoTextCheck(d, sel, x) ==
  IF sel.kind = "none"
    THEN [d |-> d, sel |-> sel, err |-> "SelectionMandatory"]
  ELSE IF ~(IsPropertySelection(sel) \/ IsContainerSelection(sel))
    THEN [d |-> d, sel |-> sel, err |-> "NotPropertyOrContainer"]
  ELSE LET del == IF ~IsCollapsed(sel)
                    THEN DeleteSelection(d, sel, NoContainer)
                    ELSE [d |-> d, sel |-> sel, err |-> NoErr]
       IN IF del.err # NoErr THEN del
          ELSE InsertAtCursor(del.d, del.sel, x)

InsertText(d, sel, x) ==
  IF sel.kind = "none"
    THEN [d |-> d, sel |-> sel, err |-> "SelectionMandatory"]
  ELSE IF x = <<>>
    THEN [d |-> d, sel |-> sel, err |-> "TextMandatory"]
  ELSE IF ~(IsPropertySelection(sel) \/ IsContainerSelection(sel))
    THEN [d |-> d, sel |-> sel, err |-> "NotPropertyOrContainer"]
  ELSE LET del == IF ~IsCollapsed(sel)
                    THEN DeleteSelection(d, sel, NoContainer)
                    ELSE [d |-> d, sel |-> sel, err |-> NoErr]
       IN IF del.err # NoErr THEN del
          ELSE InsertAtCursor(del.d, del.sel, x)

\* the calls insertText makes on the transaction, in order; the call of
\* deleteSelection stands for whatever that makes of the transaction
InsertTextTx(d, sel, x) ==
  IF sel.kind = "none" \/ x = <<>>
       \/ ~(IsPropertySelection(sel) \/ IsContainerSelection(sel))
    THEN <<>>
  ELSE LET del == IF ~IsCollapsed(sel)
                    THEN DeleteSelection(d, sel, NoContainer)
                    ELSE [d |-> d, sel |-> sel, err |-> NoErr]
           pre == IF ~IsCollapsed(sel) THEN <<"deleteSelection">> ELSE <<>>
       IN IF del.err # NoErr THEN pre
          ELSE pre \o <<"get">>
                 \o (IF del.d.content[del.sel.startPath[1]].def
                       THEN <<>> ELSE <<"set">>)
                 \o <<"update", "insertedText", "createSelection">>

(***************************************************************************)
(* Spec: a document of text nodes edited through insertText and            *)
(* deleteSelection, each called with any selection of the document.        *)
(***************************************************************************)
Doc ==
  [container |-> container, content |-> content, annos |-> annos,
   cannos |-> cannos]

\* Characters are told apart by where they come from: the i-th character
\* of node id's first text is <<id, i>>, an inserted one <<"x", i>>.
CanonText(id, n) == [i \in 1..n |-> <<id, i>>]

\* the texts insertText is called with (<<>>: missing or empty)
InsertTexts == {<<>>, <<<<"x", 1>>>>, <<<<"x", 1>>, <<"x", 2>>>>}

\* the documents of SpecContainer: container <<p1, p2, p3>>, a heading
\* and two paragraphs, each content a text of up to MaxCLen characters
InDomainContainer(d) ==
  /\ d.container = <<"p1", "p2", "p3">>
  /\ DOMAIN d.content = {"p1", "p2", "p3"}
  /\ d.content["p1"].type = "heading"
  /\ d.content["p2"].type = "paragraph"
  /\ d.content["p3"].type = "paragraph"
  /\ \A id \in {"p1", "p2", "p3"} :
       /\ d.content[id].def
       /\ Len(d.content[id].s) <= MaxCLen
       /\ d.content[id].s = CanonText(id, Len(d.content[id].s))

\* the documents calls start from: container <<p1, p2>>, a heading and a
\* paragraph, each content undefined or a text of up to MaxLen characters
InDomain(d) ==
  /\ d.container = <<"p1", "p2">>
  /\ DOMAIN d.content = {"p1", "p2"}
  /\ d.content["p1"].type = "heading"
  /\ d.content["p2"].type = "paragraph"
  /\ \A id \in {"p1", "p2"} :
       /\ Len(d.content[id].s) <= MaxLen
       /\ d.content[id].s = CanonText(id, Len(d.content[id].s))
       /\ ~d.content[id].def => d.content[id].s = <<>>

\* the annotations a document with these contents can hold:
\* 0 <= startOffset < endOffset <= length of the text at path
AnnoRecs(cont) ==
  {an \in [path : {Path(id) : id \in DOMAIN cont},
           startOffset : 0..MaxLen, endOffset : 0..MaxLen] :
     /\ an.startOffset < an.endOffset
     /\ an.endOffset <= Len(cont[an.path[1]].s)}

PropertySels(d) ==
  {PropertySel(Path(d.container[i]), s, e) :
     <<i, s, e>> \in {t \in (1..Len(d.container)) \X (0..MaxLen) \X (0..MaxLen) :
                        /\ t[2] <= t[3]
                        /\ t[3] <= Len(d.content[d.container[t[1]]].s)}}

ContainerSels(d) ==
  {ContainerSel(Path(d.container[t[1]]), t[2], Path(d.container[t[3]]), t[4]) :
     t \in {u \in (1..Len(d.container)) \X (0..MaxLen)
                    \X (1..Len(d.container)) \X (0..MaxLen) :
              /\ u[1] <= u[3]
              /\ u[1] = u[3] => u[2] <= u[4]
              /\ u[2] <= Len(d.content[d.container[u[1]]].s)
              /\ u[4] <= Len(d.content[d.container[u[3]]].s)}}

Selections(d) == PropertySels(d) \cup ContainerSels(d) \cup {NullSel, NoSel}

\* every text of the document fits the bound
Fits(d) == \A id \in DOMAIN d.content : Len(d.content[id].s) <= MaxLen

Call(op, sel, x, cid, r, txCalls) ==
  [op |-> op, sel |-> sel, text |-> x, cid |-> cid,
   err |-> r.err, res |-> r.sel, pre |-> Doc, tx |-> txCalls]

\* the call record between two calls
Ready ==
  [op |-> "ready", sel |-> NoSel, text |-> <<>>, cid |-> NoContainer,
   err |-> NoErr, res |-> NoSel, tx |-> <<>>,
   pre |-> [container |-> <<>>, content |-> <<>>, annos |-> <<>>,
            cannos |-> <<>>]]

\* Two annotation ids are interchangeable: em2 is used only beside em1,
\* and not before it.
AnnoKey(an) ==
  (IF an.path[1] = "p1" THEN 0 ELSE 1) * (MaxLen + 1) * (MaxLen + 1)
    + an.startOffset * (MaxLen + 1) + an.endOffset

AnnoSets(cont) ==
  {as \in UNION {[D -> AnnoRecs(cont)] : D \in SUBSET AnnoIds} :
     "em2" \in DOMAIN as =>
        "em1" \in DOMAIN as /\ AnnoKey(as["em1"]) <= AnnoKey(as["em2"])}

Init ==
  /\ nodes = <<>>
  /\ index = EmptyIndex
  /\ indexType = NoType
  /\ indexErr = NoErr
  /\ icall = <<>>
  /\ container = <<"p1", "p2">>
  /\ content \in
       {c \in [{"p1", "p2"} ->
                 [type : {"heading", "paragraph"}, def : BOOLEAN,
                  s : {CanonText(id, n) : id \in {"p1", "p2"}, n \in 0..MaxLen}]] :
          InDomain([container |-> <<"p1", "p2">>, content |-> c, annos |-> <<>>])}
  /\ annos \in AnnoSets(content)
  /\ cannos = <<>>
  /\ last = Ready
  /\ NoEmitter
  /\ NoTransaction
  /\ NoAdapter
  /\ NoSchema
  /\ NoSurfaces

\* insertText(tx, {selection: sel, text: x})
DoInsertText(sel, x) ==
  LET r == InsertText(Doc, sel, x)
  IN /\ Fits(r.d)
     /\ container' = r.d.container
     /\ content' = r.d.content
     /\ annos' = r.d.annos
     /\ cannos' = r.d.cannos
     /\ last' = Call("insertText", sel, x, NoContainer, r, InsertTextTx(Doc, sel, x))
     /\ UNCHANGED <<indexVars, emitterVars, txVars, storeVars, schemaVars, surfaceVars>>

\* deleteSelection(tx, {selection: sel, containerId: cid})
DoDeleteSelection(sel, cid) ==
  LET r == DeleteSelection(Doc, sel, cid)
  IN /\ Fits(r.d)
     /\ container' = r.d.container
     /\ content' = r.d.content
     /\ annos' = r.d.annos
     /\ cannos' = r.d.cannos
     /\ last' = Call("deleteSelection", sel, <<>>, cid, r, <<"deleteSelection">>)
     /\ UNCHANGED <<indexVars, emitterVars, txVars, storeVars, schemaVars, surfaceVars>>

\* deleteSelection of the property range sel = [s, e) of a text T, then
\* insertText of T[s:e] at the selection deleteSelection returned
DoRoundTrip(sel) ==
  LET T == TextAt(Doc, sel.startPath)
      x == SubSeq(T, sel.startOffset + 1, sel.endOffset)
      del == DeleteSelection(Doc, sel, NoContainer)
      r == InsertText(del.d, del.sel, x)
  IN /\ container' = r.d.container
     /\ content' = r.d.content
     /\ annos' = r.d.annos
     /\ cannos' = r.d.cannos
     /\ last' = Call("roundTrip", sel, x, NoContainer, r,
                     <<"deleteSelection">> \o InsertTextTx(del.d, del.sel, x))
     /\ UNCHANGED <<indexVars, emitterVars, txVars, storeVars, schemaVars, surfaceVars>>

\* the call has returned: the document stays, the next call may start
Return ==
  /\ last.op # "ready"
  /\ InDomain(Doc) \/ InDomainContainer(Doc)
  /\ last' = Ready
  /\ UNCHANGED <<indexVars, emitterVars, txVars, container, content, annos, cannos, storeVars, schemaVars, surfaceVars>>

\* one call at a time: a transformation runs to completion before the next
CallInsertText ==
  /\ last.op = "ready"
  /\ \E sel \in Selections(Doc), x \in InsertTexts : DoInsertText(sel, x)

CallDeleteSelection ==
  /\ last.op = "ready"
  /\ \E sel \in Selections(Doc), cid \in {NoContainer, MainId} :
       DoDeleteSelection(sel, cid)

CallRoundTrip ==
  /\ last.op = "ready"
  /\ \E sel \in {p \in PropertySels(Doc) : ~IsCollapsed(p)} : DoRoundTrip(sel)

Next == CallInsertText \/ CallDeleteSelection \/ CallRoundTrip \/ Return

Spec == Init /\ [][Next]_vars

(***************************************************************************)
(* SpecContainer: the same calls on a document of three text nodes with a  *)
(* property annotation or a container annotation.                          *)
(***************************************************************************)
\* the container annotations a document with these contents can hold: from
\* an offset of one node to an offset of a later node of the container
CAnnoRecs(c, cont) ==
  {ca \in [startPath : {Path(c[i]) : i \in 1..Len(c)}, startOffset : 0..MaxCLen,
            endPath : {Path(c[i]) : i \in 1..Len(c)}, endOffset : 0..MaxCLen] :
     /\ \E i, j \in 1..Len(c) :
          i < j /\ ca.startPath = Path(c[i]) /\ ca.endPath = Path(c[j])
     /\ ca.startOffset <= Len(cont[ca.startPath[1]].s)
     /\ ca.endOffset <= Len(cont[ca.endPath[1]].s)}

InitContainer ==
  /\ nodes = <<>>
  /\ index = EmptyIndex
  /\ indexType = NoType
  /\ indexErr = NoErr
  /\ icall = <<>>
  /\ container = <<"p1", "p2", "p3">>
  /\ content \in
       {c \in [{"p1", "p2", "p3"} ->
                 [type : {"heading", "paragraph"}, def : {TRUE},
                  s : {CanonText(id, n) : id \in {"p1", "p2", "p3"}, n \in 0..MaxCLen}]] :
          InDomainContainer([container |-> <<"p1", "p2", "p3">>, content |-> c])}
  /\ annos \in {<<>>} \cup {[k \in {"em1"} |-> an] : an \in AnnoRecs(content)}
  /\ cannos \in {<<>>} \cup {[k \in CAnnoIds |-> ca] : ca \in CAnnoRecs(container, content)}
  /\ annos = <<>> \/ cannos = <<>>
  /\ last = Ready
  /\ NoEmitter
  /\ NoTransaction
  /\ NoAdapter
  /\ NoSchema
  /\ NoSurfaces

SpecContainer == InitContainer /\ [][Next]_vars

(***************************************************************************)
(* Properties of Spec.  last holds the arguments of the call that has      *)
(* just returned, the document before it (last.pre) and what it returned.  *)
(***************************************************************************)
\* the last call was op and raised no error
Returned(op) == last.op = op /\ last.err = NoErr

\* deleteSelection has just deleted a non-collapsed property selection
PropertyDeleted ==
  /\ Returned("deleteSelection")
  /\ IsPropertySelection(last.sel)
  /\ ~IsCollapsed(last.sel)

\* insertText has just inserted at a collapsed selection
CursorInserted ==
  /\ Returned("insertText")
  /\ IsCollapsed(last.sel)

\* the annotations that were on the selection's property before the call
PreOn == {k \in DOMAIN last.pre.annos : last.pre.annos[k].path = last.sel.startPath}

PreA(k) == last.pre.annos[k].startOffset
PreB(k) == last.pre.annos[k].endOffset
SelS == last.sel.startOffset
SelE == last.sel.endOffset
PreT == last.pre.content[last.sel.startPath[1]].s

\* C2: every annotation of the document satisfies
\* 0 <= startOffset <= endOffset <= length of the text at its path,
\* after any sequence of insertText and deleteSelection calls.
C2_AnnotationsInBounds ==
  \A k \in DOMAIN annos :
    /\ annos[k].path[1] \in DOMAIN content
    /\ 0 <= annos[k].startOffset
    /\ annos[k].startOffset <= annos[k].endOffset
    /\ annos[k].endOffset <= Len(content[annos[k].path[1]].s)

\* a call has moved an annotation and another one has left it in place
C2_Witness ==
  /\ last.op \in {"insertText", "deleteSelection"}
  /\ last.err = NoErr
  /\ \E k \in DOMAIN annos : annos[k] # last.pre.annos[k]
  /\ \E k \in DOMAIN annos : annos[k].endOffset = Len(content[annos[k].path[1]].s)

\* C3: deleteSelection on a non-collapsed property selection [s, e) of a
\* property holding T leaves it equal to T[0:s] + T[e:] and returns a
\* selection collapsed at offset s on the same path.
C3_PropertyDeleteText ==
  PropertyDeleted =>
    /\ content[last.sel.startPath[1]].s
         = SubSeq(PreT, 1, SelS) \o SubSeq(PreT, SelE + 1, Len(PreT))
    /\ last.res.startPath = last.sel.startPath
    /\ last.res.startOffset = SelS
    /\ IsCollapsed(last.res)

\* a range strictly inside the text has been deleted
C3_Witness ==
  /\ PropertyDeleted
  /\ 0 < SelS
  /\ SelE < Len(PreT)

\* C4: when deleteSelection deletes the property range [s, e), an
\* annotation of that property lying fully before the range keeps both
\* offsets and one lying fully after has both decreased by e - s.
C4_BeforeAndAfter ==
  PropertyDeleted =>
    \A k \in PreOn :
      /\ PreB(k) <= SelS => k \in DOMAIN annos /\ annos[k] = last.pre.annos[k]
      /\ SelE <= PreA(k) =>
           /\ k \in DOMAIN annos
           /\ annos[k].path = last.sel.startPath
           /\ annos[k].startOffset = PreA(k) - (SelE - SelS)
           /\ annos[k].endOffset = PreB(k) - (SelE - SelS)

\* one annotation before the deleted range and one after it
C4_Witness ==
  /\ PropertyDeleted
  /\ \E k \in PreOn : PreB(k) <= SelS
  /\ \E k \in PreOn : SelE <= PreA(k)

\* C5: an annotation [a, b) with a < s < b <= e gets endOffset = s and
\* keeps startOffset; one with s <= a < e < b gets startOffset = s and
\* endOffset = b - (e - s).
C5_Overlaps ==
  PropertyDeleted =>
    \A k \in PreOn :
      /\ (PreA(k) < SelS /\ SelS < PreB(k) /\ PreB(k) <= SelE) =>
           /\ k \in DOMAIN annos
           /\ annos[k].startOffset = PreA(k)
           /\ annos[k].endOffset = SelS
      /\ (SelS <= PreA(k) /\ PreA(k) < SelE /\ SelE < PreB(k)) =>
           /\ k \in DOMAIN annos
           /\ annos[k].startOffset = SelS
           /\ annos[k].endOffset = PreB(k) - (SelE - SelS)

\* one annotation overlapping the start of the range, one overlapping its end
C5_Witness ==
  /\ PropertyDeleted
  /\ \E k \in PreOn : PreA(k) < SelS /\ SelS < PreB(k) /\ PreB(k) <= SelE
  /\ \E k \in PreOn : SelS <= PreA(k) /\ PreA(k) < SelE /\ SelE < PreB(k)

C8_InsertSplice ==
  CursorInserted =>
    /\ content[last.sel.startPath[1]].s
         = SubSeq(PreT, 1, SelS) \o last.text \o SubSeq(PreT, SelS + 1, Len(PreT))
    /\ IsPropertySelection(last.res)
    /\ IsCollapsed(last.res)
    /\ last.res.startPath = last.sel.startPath
    /\ last.res.startOffset = SelS + Len(last.text)

\* a text was inserted strictly inside the text of a property
C8_Witness ==
  /\ CursorInserted
  /\ 0 < SelS
  /\ SelS < Len(PreT)
  /\ Len(last.text) >= 1

\* C9: insertText of n characters at offset o moves an annotation of the
\* property starting at or after o right by n, leaves one ending before o
\* untouched, and moves only the endOffset of one whose range contains o
\* (it starts before o and does not end before o).
C9_InsertShifts ==
  CursorInserted =>
    /\ DOMAIN annos = DOMAIN last.pre.annos
    /\ \A k \in DOMAIN annos : annos[k].path = last.pre.annos[k].path
    /\ \A k \in PreOn :
         /\ SelS <= PreA(k) =>
              /\ annos[k].startOffset = PreA(k) + Len(last.text)
              /\ annos[k].endOffset = PreB(k) + Len(last.text)
         /\ PreB(k) < SelS => annos[k] = last.pre.annos[k]
         /\ (PreA(k) < SelS /\ SelS <= PreB(k)) =>
              /\ annos[k].startOffset = PreA(k)
              /\ annos[k].endOffset = PreB(k) + Len(last.text)

\* an annotation containing the offset and one after it
C9_Witness ==
  /\ CursorInserted
  /\ \E k \in PreOn : PreA(k) < SelS /\ SelS < PreB(k)
  /\ \E k \in PreOn : SelS <= PreA(k)

\* C10: insertText with a non-collapsed property or container selection
\* replaces the selected content by the text: the document is what
\* deleteSelection on that selection, then the splice at the position it
\* returned, make of it.
C10_ReplacesSelection ==
  (/\ last.op = "insertText"
   /\ last.text # <<>>
   /\ IsPropertySelection(last.sel) \/ IsContainerSelection(last.sel)
   /\ ~IsCollapsed(last.sel)) =>
    LET del == DeleteSelection(last.pre, last.sel, last.sel.containerId)
        ins == InsertAtCursor(del.d, del.sel, last.text)
    IN /\ last.err = NoErr
       /\ Doc = ins.d
       /\ last.res = ins.sel

\* C11: insertText called without a selection, with a missing or empty
\* text, or with a selection that is neither a property nor a container
\* selection fails with an error, has made no call on the transaction and
\* leaves the document, its annotations and the index as they were.
C11_FailsBeforeTouching ==
  (/\ last.op = "insertText"
   /\ \/ last.sel.kind = "none"
      \/ last.text = <<>>
      \/ ~(IsPropertySelection(last.sel) \/ IsContainerSelection(last.sel))) =>
    /\ last.err # NoErr
    /\ last.tx = <<>>
    /\ Doc = last.pre
    /\ index = EmptyIndex /\ nodes = <<>>

\* insertText was refused for its empty text on a document with an
\* annotation and an uninitialized property it would have initialized
C11_Witness ==
  /\ last.op = "insertText"
  /\ last.err = "TextMandatory"
  /\ IsPropertySelection(last.sel)
  /\ ~last.pre.content[last.sel.startPath[1]].def
  /\ DOMAIN annos # {}

(***************************************************************************)
(* SpecEmitter: EventEmitter (src/unnamed/part_001).  __events__ maps an   *)
(* event to its list of bindings [method, context, priority]; reg, the     *)
(* number of the registration, is kept beside them to tell the order in    *)
(* which the bindings were registered.                                     *)
(***************************************************************************)
\* the most bindings ever registered on one emitter
MaxReg == 3

EventNames == {"a", "b"}
Methods == {"f", "g"}
Contexts == {"A", "B"}
NullContext == "null"
Priorities == {-1, 0}

Binding(method, context, priority, reg) ==
  [method |-> method, context |-> context, priority |-> priority, reg |-> reg]

\* _on(event, method, context, priority): push the binding, the list
\* being created when the event has none
On(evs, event, method, context, priority, reg) ==
  LET b == Binding(method, context, priority, reg)
  IN [e \in DOMAIN evs \cup {event} |->
        IF e = event
          THEN (IF e \in DOMAIN evs THEN evs[e] ELSE <<>>) \o <<b>>
          ELSE evs[e]]

\* bindings.sort(byPriorityDescending): higher priority first, bindings of
\* one priority keeping their order (the sort is stable for lists this short)
SortByPriorityDescending(bs) ==
  LET High(b) == b.priority = 1
      Mid(b) == b.priority = 0
      Low(b) == b.priority = -1
  IN SelectSeq(bs, High) \o SelectSeq(bs, Mid) \o SelectSeq(bs, Low)

\* the events of __events__ without event
Without(evs, event) == [e \in DOMAIN evs \ {event} |-> evs[e]]

\* _off without the cleanup of a list left empty
Off_KeepsEmpty(evs, event, method, context) ==
  IF event \notin DOMAIN evs \/ evs[event] = <<>> THEN evs
  ELSE LET Keep(b) == ~(b.method = method /\ b.context = context)
       IN [evs EXCEPT ![event] = SelectSeq(@, Keep)]

\* _off(event, method, context): remove the matching bindings, and the
\* event when its list is left empty
Off(evs, event, method, context) ==
  IF event \notin DOMAIN evs \/ evs[event] = <<>> THEN evs
  ELSE LET Keep(b) == ~(b.method = method /\ b.context = context)
           bs == SelectSeq(evs[event], Keep)
       IN IF bs = <<>> THEN Without(evs, event)
          ELSE [evs EXCEPT ![event] = bs]

\* disconnect(context), the loop over one event: i runs down the list bs
\* that _off shortens in place
RECURSIVE DisconnectLoop(_, _, _, _, _)
DisconnectLoop(evs, event, bs, i, context) ==
  IF i = 0 THEN evs
  ELSE IF i <= Len(bs) /\ bs[i].context = context
    THEN LET evs1 == Off(evs, event, bs[i].method, context)
             bs1 == IF event \in DOMAIN evs1 THEN evs1[event] ELSE <<>>
         IN DisconnectLoop(evs1, event, bs1, i - 1, context)
  ELSE DisconnectLoop(evs, event, bs, i - 1, context)

\* disconnect(context) ending after the first event of __events__
DisconnectEach_OneEvent(evs, todo, context) ==
  IF todo = {} THEN evs
  ELSE LET event == CHOOSE e \in todo : TRUE
       IN IF event \in DOMAIN evs
            THEN DisconnectLoop(evs, event, evs[event], Len(evs[event]), context)
            ELSE evs

\* disconnect(context): the loop over the events of __events__
RECURSIVE DisconnectEach(_, _, _)
DisconnectEach(evs, todo, context) ==
  IF todo = {} THEN evs
  ELSE LET event == CHOOSE e \in todo : TRUE
           evs1 == IF event \in DOMAIN evs
                     THEN DisconnectLoop(evs, event, evs[event], Len(evs[event]), context)
                     ELSE evs
       IN DisconnectEach(evs1, todo \ {event}, context)

\* connect(obj, methods, options), the loop: _on for every event of
\* methods, a sequence of <<event, method>> in the order of the hash's keys
RECURSIVE ConnectEach(_, _, _, _, _)
ConnectEach(evs, methods, obj, priority, reg) ==
  IF methods = <<>> THEN evs
  ELSE ConnectEach(On(evs, methods[1][1], methods[1][2], obj, priority, reg + 1),
                   Tail(methods), obj, priority, reg + 1)

\* the record of a call: what was called, the error it threw, for emit the
\* bindings whose method was called, in order, and the value returned, for
\* emit and disconnect the bindings before the call
\* what a handler does to the emitter while emit calls it: nothing, or
\* on / _off for the event emitted, with a method and a context
NoEdit == [kind |-> "none", method |-> "", context |-> ""]

Edits ==
  {NoEdit}
    \cup [kind : {"on", "off"}, method : Methods, context : Contexts]

\* for on, nargs is the number of arguments and priority options.priority;
\* for emit, actor is the position of the handler that makes the edit
CallRec(op, event, err, called, ret) ==
  [op |-> op, event |-> event, err |-> err, called |-> called, ret |-> ret,
   pre |-> IF op \in {"emit", "disconnect"} THEN events ELSE <<>>,
   nargs |-> 0, priority |-> 0, actor |-> 0, edit |-> NoEdit, context |-> ""]

InitEmitter ==
  /\ nodes = <<>>
  /\ index = EmptyIndex
  /\ indexType = NoType
  /\ indexErr = NoErr
  /\ icall = <<>>
  /\ container = <<>>
  /\ content = <<>>
  /\ annos = <<>>
  /\ cannos = <<>>
  /\ last = <<>>
  /\ events = <<>>
  /\ regCount = 0
  /\ call = [op |-> "new", event |-> "", err |-> NoErr, called |-> <<>>,
             ret |-> FALSE, pre |-> <<>>, nargs |-> 0, priority |-> 0,
             actor |-> 0, edit |-> NoEdit, context |-> ""]
  /\ NoTransaction
  /\ NoAdapter
  /\ NoSchema
  /\ NoSurfaces

\* connect(obj, methods, {priority}): after the loop only the list of the
\* last event of methods is sorted; with no event there is none to sort
EmitterConnect(obj, methods, priority) ==
  /\ regCount + Len(methods) <= MaxReg
  /\ LET evs == ConnectEach(events, methods, obj, priority, regCount)
         lastEvent == methods[Len(methods)][1]
     IN IF methods = <<>>
          THEN /\ call' = CallRec("connect", "", "TypeError", <<>>, FALSE)
               /\ UNCHANGED <<events, regCount>>
          ELSE /\ events' = [evs EXCEPT ![lastEvent] = SortByPriorityDescending(@)]
               /\ regCount' = regCount + Len(methods)
               /\ call' = CallRec("connect", lastEvent, NoErr, <<>>, FALSE)
  /\ UNCHANGED <<indexVars, docVars, txVars, storeVars, schemaVars, surfaceVars>>

\* on(event, method, context, options) called with nargs arguments,
\* options being {priority: priority}: with three, options is undefined and
\* reading options.priority throws; with two or four the priority stays 0
EmitterOn(event, method, context, nargs, priority) ==
  /\ regCount < MaxReg
  /\ nargs = 3 => priority = 0
  /\ IF nargs = 3
       THEN /\ call' = [CallRec("on", event, "TypeError", <<>>, FALSE)
                          EXCEPT !.nargs = nargs, !.priority = priority]
            /\ UNCHANGED <<events, regCount>>
       ELSE /\ events' = [On(events, event, method,
                             IF nargs = 2 THEN NullContext ELSE context,
                             0, regCount + 1)
                            EXCEPT ![event] = SortByPriorityDescending(@)]
            /\ regCount' = regCount + 1
            /\ call' = [CallRec("on", event, NoErr, <<>>, FALSE)
                          EXCEPT !.nargs = nargs, !.priority = priority]
  /\ UNCHANGED <<indexVars, docVars, txVars, storeVars, schemaVars, surfaceVars>>

\* _off(event): remove all bindings of the event
EmitterOffAll(event) ==
  /\ events' = Without(events, event)
  /\ call' = CallRec("off", event, NoErr, <<>>, FALSE)
  /\ UNCHANGED <<indexVars, docVars, txVars, regCount, storeVars, schemaVars, surfaceVars>>

\* _off(event, method, context)
EmitterOff(event, method, context) ==
  /\ events' = Off(events, event, method, context)
  /\ call' = CallRec("off", event, NoErr, <<>>, FALSE)
  /\ UNCHANGED <<indexVars, docVars, txVars, regCount, storeVars, schemaVars, surfaceVars>>

\* disconnect(context)
EmitterDisconnect(context) ==
  /\ events' = DisconnectEach(events, DOMAIN events, context)
  /\ call' = [CallRec("disconnect", "", NoErr, <<>>, FALSE)
                EXCEPT !.context = context]
  /\ UNCHANGED <<indexVars, docVars, txVars, regCount, storeVars, schemaVars, surfaceVars>>

\* the edit a handler makes: this.on(event, method, context, {}) or
\* this._off(event, method, context)
ApplyEdit(evs, event, edit, reg) ==
  IF edit.kind = "on"
    THEN [On(evs, event, edit.method, edit.context, 0, reg + 1)
            EXCEPT ![event] = SortByPriorityDescending(@)]
  ELSE IF edit.kind = "off" THEN Off(evs, event, edit.method, edit.context)
  ELSE evs

\* emit reading the list of __events__ in every step, not its clone
DispatchList_Live(bindings, evs, event) ==
  IF event \in DOMAIN evs THEN evs[event] ELSE <<>>

\* the list the loop of emit reads bindings[i] from: the clone made by
\* this.__events__[event].slice() before the loop
DispatchList(bindings, evs, event) == bindings

\* emit(event), the loop for (i = 0, len = bindings.length; i < len; i++)
\* from position i on: the handler at position actor makes the edit, the
\* one at position thrower throws, which ends the loop and the call; a
\* binding that is undefined makes binding.method throw a TypeError
RECURSIVE EmitLoop(_, _, _, _, _, _, _, _, _, _)
EmitLoop(evs, event, bindings, i, len, thrower, actor, edit, reg, called) ==
  IF i > len THEN [evs |-> evs, called |-> called, err |-> NoErr]
  ELSE LET bs == DispatchList(bindings, evs, event)
       IN IF i > Len(bs)
            THEN [evs |-> evs, called |-> called, err |-> "TypeError"]
          ELSE LET evs1 == IF i = actor THEN ApplyEdit(evs, event, edit, reg)
                           ELSE evs
                   called1 == Append(called, bs[i])
               IN IF i = thrower
                    THEN [evs |-> evs1, called |-> called1, err |-> "ListenerError"]
                    ELSE EmitLoop(evs1, event, bindings, i + 1, len, thrower,
                                  actor, edit, reg, called1)

\* emit(event): the methods of a copy of the list are called in order; the
\* listener at position thrower (0: none) throws, or the one at position
\* actor (0: none) makes the edit, an _off removing a binding of the event
EmitterEmit(event, thrower, actor, edit) ==
  /\ event \in DOMAIN events =>
       /\ thrower <= Len(events[event])
       /\ actor <= Len(events[event])
  /\ event \notin DOMAIN events => thrower = 0 /\ actor = 0
  /\ actor = 0 <=> edit = NoEdit
  /\ thrower = 0 \/ actor = 0
  /\ edit.kind = "on" => regCount < MaxReg
  /\ edit.kind = "off" =>
       \E i \in 1..Len(events[event]) :
         /\ events[event][i].method = edit.method
         /\ events[event][i].context = edit.context
  /\ IF event \notin DOMAIN events
       THEN /\ call' = CallRec("emit", event, NoErr, <<>>, FALSE)
            /\ UNCHANGED <<events, regCount>>
       ELSE LET r == EmitLoop(events, event, events[event], 1, Len(events[event]),
                              thrower, actor, edit, regCount, <<>>)
            IN /\ events' = r.evs
               /\ regCount' = IF edit.kind = "on" THEN regCount + 1 ELSE regCount
               /\ call' = [CallRec("emit", event, r.err, r.called, r.err = NoErr)
                             EXCEPT !.actor = actor, !.edit = edit]
  /\ UNCHANGED <<indexVars, docVars, txVars, storeVars, schemaVars, surfaceVars>>

\* the hashes connect is called with: no event, one event with a method,
\* or two events with one method, in either order of the keys
MethodHashes ==
  {<<>>}
    \cup {<<<<e, m>>>> : e \in EventNames, m \in Methods}
    \cup {<<<<e1, m>>, <<e2, m>>>> :
            <<e1, e2, m>> \in {t \in EventNames \X EventNames \X Methods :
                                 t[1] # t[2]}}

\* Events, methods and contexts are interchangeable among themselves: the
\* first binding of an emitter is registered for "a" with "f" and "A".
FirstUse(event, method, context) ==
  regCount = 0 => event = "a" /\ method = "f" /\ context = "A"

NextEmitter ==
  \/ \E obj \in Contexts, methods \in MethodHashes, p \in Priorities :
       /\ methods # <<>> => FirstUse(methods[1][1], methods[1][2], obj)
       /\ EmitterConnect(obj, methods, p)
  \/ \E event \in EventNames, method \in Methods, context \in Contexts,
        nargs \in {3, 4}, p \in Priorities :
       /\ FirstUse(event, method, context)
       /\ EmitterOn(event, method, context, nargs, p)
  \/ \E event \in EventNames : EmitterOffAll(event)
  \/ \E event \in EventNames, method \in Methods, context \in Contexts :
       EmitterOff(event, method, context)
  \/ \E context \in Contexts : EmitterDisconnect(context)
  \/ \E event \in EventNames, thrower \in 0..MaxReg, actor \in {0, 1},
        edit \in Edits : EmitterEmit(event, thrower, actor, edit)

SpecEmitter == InitEmitter /\ [][NextEmitter]_vars

\* the annotations the deletion of [s, e) neither deletes nor clamps:
\* those before the range, after it, or spanning it
Unclamped ==
  {k \in PreOn :
     DeleteCase(PreA(k), PreB(k), SelS, SelE) \in {"before", "after", "spanning"}}

C13_CollapsedDeleteNoOp ==
  (/\ last.op = "deleteSelection"
   /\ IsPropertySelection(last.sel) \/ IsContainerSelection(last.sel)
   /\ IsCollapsed(last.sel)) =>
    /\ last.err = NoErr
    /\ Doc = last.pre
    /\ last.res = last.sel
    /\ DeleteSelection(Doc, last.res, last.cid)
         = [d |-> Doc, sel |-> last.res, err |-> NoErr]

\* a collapsed container selection inside a text with an annotation
C13_Witness ==
  /\ last.op = "deleteSelection"
  /\ IsContainerSelection(last.sel)
  /\ IsCollapsed(last.sel)
  /\ 0 < SelS
  /\ SelS < Len(PreT)
  /\ \E k \in PreOn : PreA(k) < SelS /\ SelS < PreB(k)

(***************************************************************************)
(* Properties of SpecContainer: deleteSelection on container selections    *)
(***************************************************************************)
\* deleteSelection has just deleted a non-collapsed container selection
ContainerDeleted ==
  /\ Returned("deleteSelection")
  /\ IsContainerSelection(last.sel)
  /\ ~IsCollapsed(last.sel)

\* the container positions of N1 and Nk and the text of Nk before the call
I1 == PosOf(last.pre, last.sel.startPath)
Ik == PosOf(last.pre, last.sel.endPath)
PreTk == last.pre.content[last.sel.endPath[1]].s

\* no head of N1 and no tail of Nk survives
FullyCovered == SelS = 0 /\ SelE = Len(PreTk)

\* the selection ran from N1 into a later node, a head or a tail surviving
PartlyDeleted == ContainerDeleted /\ I1 < Ik /\ ~FullyCovered

\* C14: deleteSelection on a container selection from offset s of N1 to
\* offset e of a later node Nk, a head or a tail surviving, leaves N1 with
\* the text N1.text[0:s] + Nk.text[e:] under its id, takes the nodes between
\* N1 and Nk and Nk itself out of the container and returns a selection
\* collapsed at s on N1's text path.
C14_MergeIntoFirst ==
  PartlyDeleted =>
    LET c == last.pre.container
        n1 == c[I1]
    IN /\ n1 \in DOMAIN content
       /\ content[n1].type = last.pre.content[n1].type
       /\ content[n1].s
            = SubSeq(PreT, 1, SelS) \o SubSeq(PreTk, SelE + 1, Len(PreTk))
       /\ container = SubSeq(c, 1, I1) \o SubSeq(c, Ik + 1, Len(c))
       /\ Len(container) = Len(c) - (Ik - I1 - 1) - 1
       /\ \A i \in (I1 + 1)..Ik : c[i] \notin DOMAIN content
       /\ IsCollapsed(last.res)
       /\ last.res.startPath = last.sel.startPath
       /\ last.res.startOffset = SelS

\* a deletion from inside the first node to inside the third
C14_Witness ==
  /\ PartlyDeleted
  /\ Ik = I1 + 2
  /\ 0 < SelS
  /\ 0 < SelE
  /\ SelE < Len(PreTk)

\* C15: after a partial container deletion from (N1, s) to (Nk, e), every
\* property annotation that lay on the tail of Nk (offsets >= e) is on N1's
\* text path, both offsets changed by s - e; it is not deleted.
C15_TailAnnotationsMove ==
  PartlyDeleted =>
    \A k \in DOMAIN last.pre.annos :
      (last.pre.annos[k].path = last.sel.endPath /\ SelE <= PreA(k)) =>
        /\ k \in DOMAIN annos
        /\ annos[k].path = last.sel.startPath
        /\ annos[k].startOffset = PreA(k) + SelS - SelE
        /\ annos[k].endOffset = PreB(k) + SelS - SelE

\* an annotation on the tail of Nk moved to N1, its offsets changed
C15_Witness ==
  /\ PartlyDeleted
  /\ 0 < SelE
  /\ SelS # SelE
  /\ \E k \in DOMAIN last.pre.annos :
       /\ last.pre.annos[k].path = last.sel.endPath
       /\ SelE <= PreA(k)
       /\ PreA(k) < PreB(k)

\* C16: deleteSelection on a container selection that fully covers every
\* selected node removes the selected nodes and creates exactly one new
\* node of the default text type with empty text, at the container position
\* of the first removed node; the returned selection is collapsed at
\* offset 0 in the new node.
C16_FullyCoveredPlaceholder ==
  (ContainerDeleted /\ FullyCovered) =>
    LET c == last.pre.container
        removed == {c[i] : i \in I1..Ik}
    IN \E n \in DOMAIN content \ DOMAIN last.pre.content :
         /\ DOMAIN content = (DOMAIN last.pre.content \ removed) \cup {n}
         /\ container = SubSeq(c, 1, I1 - 1) \o <<n>> \o SubSeq(c, Ik + 1, Len(c))
         /\ content[n] = [type |-> DefaultTextType, def |-> TRUE, s |-> <<>>]
         /\ \A id \in DOMAIN content \ {n} : content[id] = last.pre.content[id]
         /\ IsCollapsed(last.res)
         /\ last.res.startPath = Path(n)
         /\ last.res.startOffset = 0

\* the first two of three nodes, the first a heading, were fully selected
C16_Witness ==
  /\ ContainerDeleted
  /\ FullyCovered
  /\ I1 = 1
  /\ Ik = 2
  /\ Len(PreT) > 0
  /\ Len(PreTk) > 0
  /\ Len(container) = 2

\* the container annotations that start before s in N1 and end inside the
\* deleted span, on a node after N1
Truncated ==
  {k \in DOMAIN last.pre.cannos :
     LET ca == last.pre.cannos[k]
         j == PosOf(last.pre, ca.endPath)
     IN /\ ca.startPath = last.sel.startPath
        /\ ca.startOffset < SelS
        /\ I1 < j
        /\ j < Ik \/ (j = Ik /\ ca.endOffset <= SelE)}

\* C17: when a container selection starting at offset s of N1 is deleted,
\* a container annotation that starts before s in N1 and ends inside the
\* deleted span survives with its start unchanged, its endPath N1's text
\* path and its endOffset s, and references no removed node.
C17_ContainerAnnotationTruncated ==
  ContainerDeleted =>
    \A k \in Truncated :
      /\ k \in DOMAIN cannos
      /\ cannos[k].startPath = last.pre.cannos[k].startPath
      /\ cannos[k].startOffset = last.pre.cannos[k].startOffset
      /\ cannos[k].endPath = last.sel.startPath
      /\ cannos[k].endOffset = SelS
      /\ cannos[k].startPath[1] \in DOMAIN content
      /\ cannos[k].endPath[1] \in DOMAIN content
      /\ PosOf(Doc, cannos[k].startPath) > 0
      /\ PosOf(Doc, cannos[k].endPath) > 0

\* an annotation from the first node into the third, the selection from
\* inside the annotation in the first node to behind its end in the third
C17_Witness ==
  /\ ContainerDeleted
  /\ Ik = I1 + 2
  /\ \E k \in Truncated : last.pre.cannos[k].endPath = last.sel.endPath

(***************************************************************************)
(* SpecTx: document.transaction(insertText).  The transformation works on  *)
(* a stage copy of the document, one transaction operation at a time; the  *)
(* commit makes the stage the document and notifies the listeners of       *)
(* 'document:changed'; a transformation that throws leaves the document    *)
(* as it was.  Node indexes are updated after each operation               *)
(* (node_index.js lines 6-15).                                             *)
(***************************************************************************)
\* the index is updated after an operation that changed the stage from d0
\* to d1
IndexUpdated(d0, d1) ==
  [seen EXCEPT !.index = IF d1 # d0 THEN Append(@, d1) ELSE @]

\* doc.transaction(function(tx) { insertText(tx, {selection, text}) })
TxBegin(sel, x) ==
  /\ tx.pc = "idle"
  /\ InDomain(Doc)
  /\ tx' = [pc |-> "check", d |-> Doc, sel |-> sel, text |-> x, err |-> NoErr]
  /\ seen' = [index |-> <<>>, listeners |-> <<>>, pre |-> Doc]
  /\ UNCHANGED <<indexVars, docVars, emitterVars, storeVars, schemaVars, surfaceVars>>

\* insert_text.js lines 7-17: the checks of the arguments
TxCheck ==
  /\ tx.pc = "check"
  /\ LET err == IF tx.sel.kind = "none" THEN "SelectionMandatory"
                ELSE IF tx.text = <<>> THEN "TextMandatory"
                ELSE IF ~(IsPropertySelection(tx.sel) \/ IsContainerSelection(tx.sel))
                  THEN "NotPropertyOrContainer"
                ELSE NoErr
     IN tx' = [tx EXCEPT !.err = err,
                         !.pc = IF err # NoErr THEN "failed"
                                ELSE IF IsCollapsed(tx.sel) THEN "init"
                                ELSE "delete"]
  /\ UNCHANGED <<indexVars, docVars, emitterVars, seen, storeVars, schemaVars, surfaceVars>>

\* lines 19-25: deleteSelection on the stage
TxDeleteSelection ==
  /\ tx.pc = "delete"
  /\ LET r == DeleteSelection(tx.d, tx.sel, NoContainer)
     IN IF r.err # NoErr
          THEN /\ tx' = [tx EXCEPT !.err = r.err, !.pc = "failed"]
               /\ UNCHANGED seen
          ELSE /\ tx' = [tx EXCEPT !.d = r.d, !.sel = r.sel, !.pc = "init"]
               /\ seen' = IndexUpdated(tx.d, r.d)
  /\ UNCHANGED <<indexVars, docVars, emitterVars, storeVars, schemaVars, surfaceVars>>

\* lines 29-31: tx.set(path, "") when the property is undefined
TxInitProperty ==
  /\ tx.pc = "init"
  /\ LET path == tx.sel.startPath
         d1 == IF tx.d.content[path[1]].def THEN tx.d
               ELSE TxSetText(tx.d, path, <<>>)
     IN /\ tx' = [tx EXCEPT !.d = d1, !.pc = "update"]
        /\ seen' = IndexUpdated(tx.d, d1)
  /\ UNCHANGED <<indexVars, docVars, emitterVars, storeVars, schemaVars, surfaceVars>>

\* line 32: tx.update(path, {insert: {offset, value: text}})
TxUpdate ==
  /\ tx.pc = "update"
  /\ LET path == tx.sel.startPath
         d1 == [tx.d EXCEPT !.content[path[1]].s = InsertAt(@, tx.sel.startOffset, tx.text)]
     IN /\ tx' = [tx EXCEPT !.d = d1, !.pc = "shift"]
        /\ seen' = IndexUpdated(tx.d, d1)
  /\ UNCHANGED <<indexVars, docVars, emitterVars, storeVars, schemaVars, surfaceVars>>

\* line 33: Annotations.insertedText(tx, range.start, text.length)
TxInsertedText ==
  /\ tx.pc = "shift"
  /\ LET path == tx.sel.startPath
         o == tx.sel.startOffset
         d1 == [tx.d EXCEPT
                  !.annos = InsertedText(@, path, o, Len(tx.text)),
                  !.cannos = InsertedContainerAnnos(@, path, o, Len(tx.text))]
     IN /\ tx' = [tx EXCEPT !.d = d1, !.pc = "commit",
                            !.sel = PropertySel(path, o + Len(tx.text), o + Len(tx.text))]
        /\ seen' = IndexUpdated(tx.d, d1)
  /\ UNCHANGED <<indexVars, docVars, emitterVars, storeVars, schemaVars, surfaceVars>>

\* the transformation has returned: the stage becomes the document and
\* 'document:changed' is emitted once
TxCommit ==
  /\ tx.pc = "commit"
  /\ container' = tx.d.container
  /\ content' = tx.d.content
  /\ annos' = tx.d.annos
  /\ cannos' = tx.d.cannos
  /\ tx' = [tx EXCEPT !.pc = "committed"]
  /\ seen' = [seen EXCEPT !.listeners = Append(@, tx.d)]
  /\ UNCHANGED <<indexVars, emitterVars, last, storeVars, schemaVars, surfaceVars>>

\* the transaction is over, committed or discarded
TxEnd ==
  /\ tx.pc \in {"committed", "failed"}
  /\ tx' = IdleTx
  /\ seen' = NothingSeen
  /\ UNCHANGED <<indexVars, docVars, emitterVars, storeVars, schemaVars, surfaceVars>>

NextTx ==
  \/ \E sel \in Selections(Doc), x \in InsertTexts : TxBegin(sel, x)
  \/ TxCheck
  \/ TxDeleteSelection
  \/ TxInitProperty
  \/ TxUpdate
  \/ TxInsertedText
  \/ TxCommit
  \/ TxEnd

SpecTx == Init /\ [][NextTx]_vars

\* C20: the index and the listeners are shown no intermediate state of a
\* transaction: for a committed transaction each is notified exactly once,
\* with the document as committed; for a transaction that failed and was
\* discarded neither is notified and the document is what it was.
C20_OnlyCommittedObserved ==
  /\ tx.pc \in {"check", "delete", "init", "update", "shift", "commit"} =>
       seen.listeners = <<>> /\ Doc = seen.pre
  /\ tx.pc = "committed" =>
       /\ seen.listeners = <<Doc>>
       /\ seen.index = <<Doc>>
  /\ tx.pc = "failed" =>
       /\ seen.listeners = <<>>
       /\ seen.index = <<>>
       /\ Doc = seen.pre

(***************************************************************************)
(* PathAdapter and PathAdapter.Arrays (src/src/basics/path_adapter.js)     *)
(* over a tree of JavaScript values: a number, an object (its own keys in  *)
(* the order they were created, which is the order for-in enumerates       *)
(* them in), an array of numbers, or undefined.                            *)
(***************************************************************************)
\* the largest store: the keys of all its objects plus the elements of all
\* its arrays
MaxSize == 5

Keys == {"a", "b"}
Nums == {0, 1}
ValuesKey == "__values__"

Undefined == [t |-> "undefined"]
Num(n) == [t |-> "num", n |-> n]
Obj(es) == [t |-> "obj", es |-> es]
Arr(vs) == [t |-> "arr", vs |-> vs]
EmptyObj == Obj(<<>>)

\* the paths the adapter is called with: one to three keys
Paths ==
  {<<k>> : k \in Keys}
    \cup {<<k, l>> : k \in Keys, l \in Keys}
    \cup {<<k, l, m>> : k \in Keys, l \in Keys, m \in Keys}

\* path[path.length-1] and the keys before it
LastKey(path) == path[Len(path)]
Front(path) == SubSeq(path, 1, Len(path) - 1)

\* !!v
Truthy(v) == v.t \in {"obj", "arr"} \/ (v.t = "num" /\ v.n # 0)

\* the position of key among the own keys of object o, 0 when it has none
KeyIdx(o, key) ==
  IF \E i \in 1..Len(o.es) : o.es[i][1] = key
    THEN CHOOSE i \in 1..Len(o.es) : o.es[i][1] = key
    ELSE 0

\* v[key] for a value v that is not undefined: a number has no such property
GetKey(v, key) ==
  IF v.t = "obj" /\ KeyIdx(v, key) > 0 THEN v.es[KeyIdx(v, key)][2]
  ELSE Undefined

\* o[key] = val on an object: a new key comes last
PutKey(o, key, val) ==
  IF KeyIdx(o, key) > 0
    THEN Obj([o.es EXCEPT ![KeyIdx(o, key)] = <<key, val>>])
    ELSE Obj(Append(o.es, <<key, val>>))

\* delete o[key]
DeleteKey(o, key) ==
  LET Other(e) == e[1] # key
  IN Obj(SelectSeq(o.es, Other))

\* the keys of all objects and the elements of all arrays in v
RECURSIVE Size(_)
RECURSIVE SizeEach(_)
SizeEach(es) ==
  IF es = <<>> THEN 0 ELSE 1 + Size(es[1][2]) + SizeEach(Tail(es))

Size(v) ==
  IF v.t = "obj" THEN SizeEach(v.es)
  ELSE IF v.t = "arr" THEN Len(v.vs)
  ELSE 0

\* _resolve(path) without create, prefix being the keys before the last:
\* the context the last key is looked up in, undefined when a level is missing
RECURSIVE Resolve(_, _)
Resolve(context, prefix) ==
  IF prefix = <<>> THEN context
  ELSE IF GetKey(context, Head(prefix)) = Undefined THEN Undefined
  ELSE Resolve(GetKey(context, Head(prefix)), Tail(prefix))

\* _resolve(path, true): a missing level is created as {}; creating one on
\* a number throws a TypeError (the file is in strict mode).  r.v is the
\* context with the levels created in it.
RECURSIVE ResolveCreate(_, _)
ResolveCreate(context, prefix) ==
  IF prefix = <<>> THEN [v |-> context, err |-> NoErr]
  ELSE LET key == Head(prefix)
           child == GetKey(context, key)
       IN IF child = Undefined /\ context.t # "obj"
            THEN [v |-> context, err |-> "TypeError"]
          ELSE LET r == ResolveCreate(IF child = Undefined THEN EmptyObj ELSE child,
                                      Tail(prefix))
               IN IF r.err # NoErr THEN [v |-> context, err |-> r.err]
                  ELSE [v |-> PutKey(context, key, r.v), err |-> NoErr]

\* _resolve(path, create): r.context is what it returns, r.root the store
\* with the levels it created
Resolved(root, prefix, create) ==
  IF create
    THEN LET r == ResolveCreate(root, prefix)
         IN [root |-> r.v,
             context |-> IF r.err = NoErr THEN Resolve(r.v, prefix) ELSE Undefined,
             err |-> r.err]
    ELSE [root |-> root, context |-> Resolve(root, prefix), err |-> NoErr]

\* context[key] = val, context being the object the prefix of path leads to
RECURSIVE AssignAt(_, _, _)
AssignAt(v, path, val) ==
  IF Len(path) = 1 THEN PutKey(v, path[1], val)
  ELSE PutKey(v, path[1], AssignAt(GetKey(v, path[1]), Tail(path), val))

\* delete context[key], context being the object the prefix of path leads to
RECURSIVE RemoveAt(_, _)
RemoveAt(v, path) ==
  IF Len(path) = 1 THEN DeleteKey(v, path[1])
  ELSE PutKey(v, path[1], RemoveAt(GetKey(v, path[1]), Tail(path)))

\* PathAdapter.get with _resolve(path, true) in place of _resolve(path)
PathGet_Creates(root, path) ==
  IF path = <<>> THEN [root |-> root, ret |-> root]
  ELSE LET r == Resolved(root, Front(path), TRUE)
       IN [root |-> r.root,
           ret |-> IF Truthy(r.context) THEN GetKey(r.context, LastKey(path))
                   ELSE Undefined]

\* PathAdapter.get(path): r.ret is the value returned, r.root the store
\* afterwards
PathGet(root, path) ==
  IF path = <<>> THEN [root |-> root, ret |-> root]
  ELSE LET r == Resolved(root, Front(path), FALSE)
       IN [root |-> r.root,
           ret |-> IF Truthy(r.context) THEN GetKey(r.context, LastKey(path))
                   ELSE Undefined]

\* PathAdapter.set(path, value): assigning a property of a number throws
PathSet(root, path, val) ==
  LET r == Resolved(root, Front(path), TRUE)
  IN IF r.err # NoErr THEN [root |-> root, err |-> r.err]
     ELSE IF r.context.t # "obj" THEN [root |-> root, err |-> "TypeError"]
     ELSE [root |-> AssignAt(r.root, path, val), err |-> NoErr]

\* PathAdapter.delete(path, strict): the condition is
\* (strict && !obj) || !obj[key], and reading obj[key] of undefined throws
PathDelete(root, path, strict) ==
  LET obj == Resolved(root, Front(path), FALSE).context
      err == IF strict /\ ~Truthy(obj) THEN "InvalidPath"
             ELSE IF obj = Undefined THEN "TypeError"
             ELSE IF ~Truthy(GetKey(obj, LastKey(path))) THEN "InvalidPath"
             ELSE NoErr
  IN [root |-> IF err = NoErr THEN RemoveAt(root, path) ELSE root, err |-> err]

\* PathAdapter._traverse(root, path, fn): the calls of fn, in order
RECURSIVE PathTraverse(_, _)
RECURSIVE PathTraverseEach(_, _)
PathTraverseEach(es, path) ==
  IF es = <<>> THEN <<>>
  ELSE LET id == es[1][1]
           childPath == Append(path, id)
       IN (IF id # ValuesKey
             THEN <<[path |-> childPath, value |-> es[1][2]]>>
                    \o PathTraverse(es[1][2], childPath)
             ELSE <<>>)
            \o PathTraverseEach(Tail(es), path)

PathTraverse(root, path) ==
  IF root.t = "obj" THEN PathTraverseEach(root.es, path) ELSE <<>>

\* PathAdapter.Arrays.get(path)
ArraysGet(root, path) ==
  IF path = <<>> THEN [root |-> root, ret |-> root]
  ELSE LET r == Resolved(root, Front(path), FALSE)
       IN [root |-> r.root,
           ret |-> IF Truthy(r.context) /\ Truthy(GetKey(r.context, LastKey(path)))
                     THEN GetKey(GetKey(r.context, LastKey(path)), ValuesKey)
                     ELSE Undefined]

\* what add makes of context[key]: a missing one becomes {__values__: []},
\* then the value is pushed; r.err is the TypeError of values.push when
\* context[key] is an object without __values__
AddedNode(node, val) ==
  LET node1 == IF ~Truthy(node) THEN Obj(<< <<ValuesKey, Arr(<<>>)>> >>) ELSE node
      values == GetKey(node1, ValuesKey)
  IN IF values.t # "arr" THEN [v |-> node1, err |-> "TypeError"]
     ELSE [v |-> PutKey(node1, ValuesKey, Arr(Append(values.vs, val))), err |-> NoErr]

\* PathAdapter.Arrays.add(path, value)
ArraysAdd(root, path, val) ==
  LET r == Resolved(root, Front(path), TRUE)
      n == AddedNode(GetKey(r.context, LastKey(path)), val)
  IN IF r.err # NoErr THEN [root |-> root, err |-> r.err]
     ELSE IF n.err # NoErr THEN [root |-> r.root, err |-> n.err]
     ELSE [root |-> AssignAt(r.root, path, n.v), err |-> NoErr]

\* _.deleteFromArray(values, value): the first or all of the elements equal
\* to value
DeleteFromArray(vs, val, all) ==
  LET Other(x) == x # val
      first == IF \E i \in 1..Len(vs) : vs[i] = val
                 THEN CHOOSE i \in 1..Len(vs) :
                        vs[i] = val /\ \A j \in 1..(i - 1) : vs[j] # val
                 ELSE 0
  IN IF all THEN SelectSeq(vs, Other)
     ELSE IF first = 0 THEN vs
     ELSE SubSeq(vs, 1, first - 1) \o SubSeq(vs, first + 1, Len(vs))

\* the array at path/__values__ replaced by vs
WithValues(root, path, vs) == AssignAt(root, Append(path, ValuesKey), Arr(vs))

\* PathAdapter.Arrays.remove(path, value): a warning when there is no array
ArraysRemove(root, path, val, all) ==
  LET values == ArraysGet(root, path).ret
  IN IF Truthy(values)
       THEN [root |-> WithValues(root, path, DeleteFromArray(values.vs, val, all)),
             err |-> NoErr]
       ELSE [root |-> root, err |-> NoErr]

\* PathAdapter.Arrays.removeAll(path): values.splice of undefined throws
ArraysRemoveAll(root, path) ==
  LET values == ArraysGet(root, path).ret
  IN IF values = Undefined THEN [root |-> root, err |-> "TypeError"]
     ELSE [root |-> WithValues(root, path, <<>>), err |-> NoErr]

\* PathAdapter.Arrays.set: not available
ArraysSet(root, path, val) == [root |-> root, err |-> "NotAvailable"]

\* PathAdapter.Arrays._traverse(root, path, fn): the calls of fn, in order
RECURSIVE ArraysTraverse(_, _)
RECURSIVE ArraysTraverseEach(_, _)
ArraysTraverseEach(es, path) ==
  IF es = <<>> THEN <<>>
  ELSE (IF es[1][1] = ValuesKey
          THEN <<[path |-> path, value |-> es[1][2]]>>
          ELSE ArraysTraverse(es[1][2], Append(path, es[1][1])))
         \o ArraysTraverseEach(Tail(es), path)

ArraysTraverse(root, path) ==
  IF root.t = "obj" THEN ArraysTraverseEach(root.es, path) ELSE <<>>

(***************************************************************************)
(* SpecPath: one adapter, plain or array-valued, and the calls on it       *)
(***************************************************************************)
\* the record of a call: the method, its arguments, the store before it,
\* the value it returned, the error it threw and, for traverse, the calls
\* of fn
PathCall(op, path, val, flag, ret, err, calls) ==
  [op |-> op, path |-> path, val |-> val, flag |-> flag, pre |-> store,
   ret |-> ret, err |-> err, calls |-> calls]

\* no call is in progress
NoCall ==
  [op |-> "none", path |-> <<>>, val |-> Undefined, flag |-> FALSE,
   pre |-> EmptyObj, ret |-> Undefined, err |-> NoErr, calls |-> <<>>]

InitPath ==
  /\ nodes = <<>>
  /\ index = EmptyIndex
  /\ indexType = NoType
  /\ indexErr = NoErr
  /\ icall = <<>>
  /\ container = <<>>
  /\ content = <<>>
  /\ annos = <<>>
  /\ cannos = <<>>
  /\ last = <<>>
  /\ NoEmitter
  /\ NoTransaction
  /\ NoSchema
  /\ NoSurfaces
  /\ adapter \in {"plain", "arrays"}
  /\ store = EmptyObj
  /\ pcall = NoCall

otherThanStore == <<indexVars, docVars, emitterVars, txVars, schemaVars, surfaceVars>>

\* adapter.get(path)
AdapterGet(path) ==
  /\ pcall = NoCall
  /\ LET r == IF adapter = "plain" THEN PathGet(store, path)
              ELSE ArraysGet(store, path)
     IN /\ store' = r.root
        /\ pcall' = PathCall("get", path, Undefined, FALSE, r.ret, NoErr, <<>>)
  /\ UNCHANGED <<otherThanStore, adapter>>

\* adapter.set(path, value)
AdapterSet(path, val) ==
  /\ pcall = NoCall
  /\ LET r == IF adapter = "plain" THEN PathSet(store, path, val)
              ELSE ArraysSet(store, path, val)
     IN /\ Size(r.root) <= MaxSize
        /\ store' = r.root
        /\ pcall' = PathCall("set", path, val, FALSE, Undefined, r.err, <<>>)
  /\ UNCHANGED <<otherThanStore, adapter>>

\* adapter.delete(path, strict)
AdapterDelete(path, strict) ==
  /\ pcall = NoCall
  /\ LET r == PathDelete(store, path, strict)
     IN /\ store' = r.root
        /\ pcall' = PathCall("delete", path, Undefined, strict, Undefined, r.err, <<>>)
  /\ UNCHANGED <<otherThanStore, adapter>>

\* adapter.clear()
AdapterClear ==
  /\ pcall = NoCall
  /\ store' = EmptyObj
  /\ pcall' = PathCall("clear", <<>>, Undefined, FALSE, Undefined, NoErr, <<>>)
  /\ UNCHANGED <<otherThanStore, adapter>>

\* adapter.traverse(fn)
AdapterTraverse ==
  /\ pcall = NoCall
  /\ pcall' = PathCall("traverse", <<>>, Undefined, FALSE, Undefined, NoErr,
                       IF adapter = "plain" THEN PathTraverse(store, <<>>)
                       ELSE ArraysTraverse(store, <<>>))
  /\ UNCHANGED <<otherThanStore, adapter, store>>

\* arrays.add(path, value)
AdapterAdd(path, val) ==
  /\ pcall = NoCall
  /\ adapter = "arrays"
  /\ LET r == ArraysAdd(store, path, val)
     IN /\ Size(r.root) <= MaxSize
        /\ store' = r.root
        /\ pcall' = PathCall("add", path, val, FALSE, Undefined, r.err, <<>>)
  /\ UNCHANGED <<otherThanStore, adapter>>

\* arrays.remove(path, value)
AdapterRemove(path, val, all) ==
  /\ pcall = NoCall
  /\ adapter = "arrays"
  /\ LET r == ArraysRemove(store, path, val, all)
     IN /\ store' = r.root
        /\ pcall' = PathCall("remove", path, val, all, Undefined, r.err, <<>>)
  /\ UNCHANGED <<otherThanStore, adapter>>

\* arrays.removeAll(path)
AdapterRemoveAll(path) ==
  /\ pcall = NoCall
  /\ adapter = "arrays"
  /\ LET r == ArraysRemoveAll(store, path)
     IN /\ store' = r.root
        /\ pcall' = PathCall("removeAll", path, Undefined, FALSE, Undefined, r.err, <<>>)
  /\ UNCHANGED <<otherThanStore, adapter>>

\* the call has returned or thrown; the caller goes on
AdapterReturn ==
  /\ pcall # NoCall
  /\ pcall' = NoCall
  /\ UNCHANGED <<otherThanStore, adapter, store>>

NextPath ==
  \/ \E path \in Paths \cup {<<>>} : AdapterGet(path)
  \/ \E path \in Paths, n \in Nums : AdapterSet(path, Num(n))
  \/ \E path \in Paths, strict \in BOOLEAN : AdapterDelete(path, strict)
  \/ AdapterClear
  \/ AdapterTraverse
  \/ \E path \in Paths, n \in Nums : AdapterAdd(path, n)
  \/ \E path \in Paths, n \in Nums, all \in BOOLEAN : AdapterRemove(path, n, all)
  \/ \E path \in Paths : AdapterRemoveAll(path)
  \/ AdapterReturn

SpecPath == InitPath /\ [][NextPath]_vars

(***************************************************************************)
(* Properties of SpecPath                                                  *)
(***************************************************************************)
\* the value the store root holds at path, undefined when there is none
At(root, path) == Resolve(root, path)

\* the proper, non-empty prefixes of path
Prefixes(path) == {SubSeq(path, 1, i) : i \in 1..(Len(path) - 1)}

\* C21: get(path) leaves the store as it was, for every store and every
\* path, existing or not; set(path, v) creates every missing intermediate
\* level: when it returns, every proper prefix of path holds a mapping and
\* path holds v, and it throws, changing nothing, only when a prefix of
\* path held a value that is not a mapping.
C21_GetNeverCreates ==
  /\ pcall.op = "get" => store = pcall.pre
  /\ (pcall.op = "set" /\ adapter = "plain") =>
       IF \E q \in Prefixes(pcall.path) : At(pcall.pre, q).t = "num"
         THEN pcall.err # NoErr /\ store = pcall.pre
         ELSE /\ pcall.err = NoErr
              /\ \A q \in Prefixes(pcall.path) : At(store, q).t = "obj"
              /\ At(store, pcall.path) = pcall.val

\* get on a path of three keys none of whose levels exists, the store
\* holding something else
C21_Witness ==
  /\ pcall.op = "get"
  /\ adapter = "plain"
  /\ Len(pcall.path) = 3
  /\ At(pcall.pre, <<pcall.path[1]>>) = Undefined
  /\ pcall.pre # EmptyObj
  /\ pcall.ret = Undefined

\* C22: delete(path, strict) on a path that holds no value leaves the
\* store unchanged and, when strict is false or omitted, raises nothing,
\* whether the last key or an intermediate level is missing; when strict is
\* true it fails with the invalid-path error.
C22_DeleteMissing ==
  (pcall.op = "delete" /\ At(pcall.pre, pcall.path) = Undefined) =>
    /\ store = pcall.pre
    /\ pcall.err = IF pcall.flag THEN "InvalidPath" ELSE NoErr

\* the paths of the leaf values stored: on PathAdapter the numbers, on
\* PathAdapter.Arrays the arrays under __values__
LeafPaths(root) ==
  {p \in Paths :
     IF adapter = "plain" THEN At(root, p).t = "num"
     ELSE GetKey(At(root, p), ValuesKey).t = "arr"}

LeafAt(root, p) ==
  IF adapter = "plain" THEN At(root, p) ELSE GetKey(At(root, p), ValuesKey)

\* C23: traverse(fn) calls fn exactly once for every stored leaf value,
\* with the full path of the value, and for nothing else: not for an
\* intermediate level, not for a part of a leaf value.
C23_TraverseLeaves ==
  pcall.op = "traverse" =>
    /\ \A i \in 1..Len(pcall.calls) :
         /\ pcall.calls[i].path \in LeafPaths(pcall.pre)
         /\ pcall.calls[i].value = LeafAt(pcall.pre, pcall.calls[i].path)
    /\ \A p \in LeafPaths(pcall.pre) :
         Cardinality({i \in 1..Len(pcall.calls) : pcall.calls[i].path = p}) = 1

\* the values get(path) returns on the array-valued store, none when the
\* path holds no array
ValuesAt(root, path) ==
  IF ArraysGet(root, path).ret.t = "arr" THEN ArraysGet(root, path).ret.vs
  ELSE <<>>

\* C24: on the array-valued store add(path, v) appends v after the values
\* added at path before, so that get(path) returns them in insertion order
\* with duplicates kept; set always fails and leaves the store unchanged.
C24_AddAppends ==
  /\ pcall.op = "add" =>
       /\ pcall.err = NoErr
       /\ ValuesAt(store, pcall.path) = Append(ValuesAt(pcall.pre, pcall.path), pcall.val)
  /\ (pcall.op = "set" /\ adapter = "arrays") =>
       /\ pcall.err # NoErr
       /\ store = pcall.pre

\* p is a prefix of q (or q itself)
IsPrefix(p, q) == Len(p) <= Len(q) /\ SubSeq(q, 1, Len(p)) = p

\* C34: for every store and every non-empty path, set(path, v) followed by
\* get(path) returns v, also when a prefix of the path held a value that is
\* not a mapping, and the value at every path that is neither a prefix nor
\* an extension of path is what it was before the set.
C34_SetThenGet ==
  (pcall.op = "set" /\ adapter = "plain") =>
    /\ PathGet(store, pcall.path).ret = pcall.val
    /\ \A q \in Paths :
         (~IsPrefix(q, pcall.path) /\ ~IsPrefix(pcall.path, q)) =>
           At(store, q) = At(pcall.pre, q)

(***************************************************************************)
(* Schema.addNodes (src/unnamed/part_000) over NodeFactory.register        *)
(* (src/src/data/node_index.js, lines 222-236).  A candidate class is      *)
(*   [id, static, name, node, toc]:                                        *)
(* its identity, whether it has a static with a string name, that name,    *)
(* whether its prototype is an instance of Node, and static.tocType.       *)
(***************************************************************************)
\* the longest list addNodes is called with
MaxNodes == 2

ClassIds == {"c1", "c2"}
ClassNames == {"p", "h", ""}

Candidates ==
  {c \in [id : ClassIds, static : BOOLEAN, name : ClassNames, node : BOOLEAN,
          toc : BOOLEAN] :
     ~c.static => (c.name = "" /\ ~c.toc)}

\* Factory.contains(name)
Contains(reg, name) == name \in DOMAIN reg

\* Factory.add(name, nodeClazz)
FactoryAdd(reg, name, nodeClazz) ==
  [n \in DOMAIN reg \cup {name} |-> IF n = name THEN nodeClazz ELSE reg[n]]

\* NodeFactory.register without the test of this.contains(name)
Register_NoDuplicateCheck(reg, nodeClazz) ==
  IF ~nodeClazz.static \/ nodeClazz.name = ""
    THEN [reg |-> reg, err |-> "InvalidType"]
  ELSE IF ~nodeClazz.node THEN [reg |-> reg, err |-> "InvalidType"]
  ELSE [reg |-> FactoryAdd(reg, nodeClazz.name, nodeClazz), err |-> NoErr]

\* NodeFactory.register(nodeClazz)
Register(reg, nodeClazz) ==
  IF ~nodeClazz.static \/ nodeClazz.name = ""
    THEN [reg |-> reg, err |-> "InvalidType"]
  ELSE IF ~nodeClazz.node THEN [reg |-> reg, err |-> "InvalidType"]
  ELSE IF Contains(reg, nodeClazz.name) THEN [reg |-> reg, err |-> "DuplicateType"]
  ELSE [reg |-> FactoryAdd(reg, nodeClazz.name, nodeClazz), err |-> NoErr]

\* Schema.addNodes(nodes), the loop from the candidate at position i on:
\* the first register that throws ends it
RECURSIVE AddNodes(_, _, _, _)
AddNodes(reg, toc, cs, i) ==
  IF i > Len(cs) THEN [reg |-> reg, toc |-> toc, err |-> NoErr, at |-> 0]
  ELSE LET r == Register(reg, cs[i])
       IN IF r.err # NoErr
            THEN [reg |-> reg, toc |-> toc, err |-> r.err, at |-> i]
          ELSE AddNodes(r.reg, IF cs[i].toc THEN Append(toc, cs[i].name) ELSE toc,
                        cs, i + 1)

\* no addNodes call is in progress
NoSchemaCall == [op |-> "none", nodes |-> <<>>, pre |-> <<>>, preToc |-> <<>>,
                 err |-> NoErr, at |-> 0]

\* a schema whose getBuiltIns() gives no class
InitSchema ==
  /\ nodes = <<>>
  /\ index = EmptyIndex
  /\ indexType = NoType
  /\ indexErr = NoErr
  /\ icall = <<>>
  /\ container = <<>>
  /\ content = <<>>
  /\ annos = <<>>
  /\ cannos = <<>>
  /\ last = <<>>
  /\ NoEmitter
  /\ NoTransaction
  /\ NoAdapter
  /\ registry = <<>>
  /\ tocTypes = <<>>
  /\ scall = NoSchemaCall
  /\ NoSurfaces

\* schema.addNodes(cs) registering nothing when a candidate is rejected
SchemaAddNodes_AllOrNothing(cs) ==
  /\ scall = NoSchemaCall
  /\ LET r == AddNodes(registry, tocTypes, cs, 1)
     IN /\ registry' = IF r.err # NoErr THEN registry ELSE r.reg
        /\ tocTypes' = IF r.err # NoErr THEN tocTypes ELSE r.toc
        /\ scall' = [op |-> "addNodes", nodes |-> cs, pre |-> registry,
                     preToc |-> tocTypes, err |-> r.err, at |-> r.at]
  /\ UNCHANGED <<indexVars, docVars, emitterVars, txVars, storeVars, surfaceVars>>

\* schema.addNodes(cs)
SchemaAddNodes(cs) ==
  /\ scall = NoSchemaCall
  /\ LET r == AddNodes(registry, tocTypes, cs, 1)
     IN /\ registry' = r.reg
        /\ tocTypes' = r.toc
        /\ scall' = [op |-> "addNodes", nodes |-> cs, pre |-> registry,
                     preToc |-> tocTypes, err |-> r.err, at |-> r.at]
  /\ UNCHANGED <<indexVars, docVars, emitterVars, txVars, storeVars, surfaceVars>>

\* addNodes has returned or thrown; the caller goes on
SchemaReturn ==
  /\ scall # NoSchemaCall
  /\ scall' = NoSchemaCall
  /\ UNCHANGED <<indexVars, docVars, emitterVars, txVars, storeVars, surfaceVars,
                 registry, tocTypes>>

NextSchema ==
  \/ \E cs \in SeqsUpTo(Candidates, MaxNodes) : SchemaAddNodes(cs)
  \/ SchemaReturn

SpecSchema == InitSchema /\ [][NextSchema]_vars

(***************************************************************************)
(* Properties of SpecSchema                                                *)
(***************************************************************************)
\* the candidate has a non-empty static name and is a Node type
ValidType(c) == c.static /\ c.name # "" /\ c.node

\* C25: addNodes fails when the name of a candidate is already registered,
\* by an earlier call or by an earlier candidate of the list (duplicate
\* type), and when a candidate has no non-empty static name or is not a
\* Node type (invalid type); a rejected candidate is not in the registry
\* afterwards, and a name registered before is bound to the class it was
\* bound to.
C25_AddNodesRejects ==
  scall.op = "addNodes" =>
    LET cs == scall.nodes
        Dup(i) == \/ cs[i].name \in DOMAIN scall.pre
                  \/ \E j \in 1..(i - 1) : ValidType(cs[j]) /\ cs[j].name = cs[i].name
        Bad(i) == ~ValidType(cs[i]) \/ Dup(i)
    IN /\ (\E i \in 1..Len(cs) : Bad(i)) <=> scall.err # NoErr
       /\ scall.err # NoErr =>
            /\ Bad(scall.at)
            /\ \A j \in 1..(scall.at - 1) : ~Bad(j)
            /\ scall.err = IF ValidType(cs[scall.at]) THEN "DuplicateType"
                           ELSE "InvalidType"
       /\ \A i \in 1..Len(cs) :
            Bad(i) => \A n \in DOMAIN registry \ DOMAIN scall.pre : registry[n] # cs[i]
                        \/ \E j \in 1..(i - 1) : ~Bad(j) /\ cs[j] = cs[i]
       /\ \A n \in DOMAIN scall.pre : n \in DOMAIN registry /\ registry[n] = scall.pre[n]
       /\ \A n \in DOMAIN registry \ DOMAIN scall.pre :
            \E i \in 1..Len(cs) : ValidType(cs[i]) /\ cs[i].name = n /\ registry[n] = cs[i]

\* a list whose second candidate has the name of a class registered by an
\* earlier call, but is another class
C25_Witness ==
  /\ scall.op = "addNodes"
  /\ Len(scall.nodes) = 2
  /\ ValidType(scall.nodes[2])
  /\ scall.nodes[2].name \in DOMAIN scall.pre
  /\ scall.pre[scall.nodes[2].name] # scall.nodes[2]
  /\ scall.err = "DuplicateType"

\* the names of the candidates cs[1..k] that have a tocType, in list order
RECURSIVE TocNames(_, _)
TocNames(cs, k) ==
  IF k = 0 THEN <<>>
  ELSE IF cs[k].toc THEN Append(TocNames(cs, k - 1), cs[k].name)
  ELSE TocNames(cs, k - 1)

\* C33: addNodes registers the candidates one at a time in list order: when
\* the k-th candidate is rejected, the candidates before it are registered
\* and the names of those with a tocType are recorded, in list order, and
\* no candidate after the k-th is registered or recorded; a call without a
\* rejected candidate registers and records all of them.
C33_AddNodesPartial ==
  scall.op = "addNodes" =>
    LET cs == scall.nodes
        k == IF scall.err # NoErr THEN scall.at ELSE Len(cs) + 1
    IN /\ k \in 1..(Len(cs) + 1)
       /\ \A j \in 1..(k - 1) :
            cs[j].name \in DOMAIN registry /\ registry[cs[j].name] = cs[j]
       /\ DOMAIN registry = DOMAIN scall.pre \cup {cs[j].name : j \in 1..(k - 1)}
       /\ \A n \in DOMAIN scall.pre : registry[n] = scall.pre[n]
       /\ tocTypes = scall.preToc \o TocNames(cs, k - 1)

\* the second candidate was rejected after the first, which has a tocType,
\* was registered
C33_Witness ==
  /\ scall.op = "addNodes"
  /\ scall.err # NoErr
  /\ scall.at = 2
  /\ scall.nodes[1].toc
  /\ scall.nodes[1].name \notin DOMAIN scall.pre
  /\ registry[scall.nodes[1].name] = scall.nodes[1]
  /\ tocTypes # scall.preToc

\* the first candidate was rejected and the second, a valid type with a
\* free name, was not registered
C33_WitnessAfter ==
  /\ scall.op = "addNodes"
  /\ scall.at = 1
  /\ Len(scall.nodes) = 2
  /\ ValidType(scall.nodes[2])
  /\ scall.nodes[2].name \notin DOMAIN registry

(***************************************************************************)
(* SpecIndexCalls: the methods of one NodeIndex called as its clients may  *)
(* call them, with any node and any old and new value.  Node n1 is of      *)
(* type t1 and node n2 of type t2.                                         *)
(***************************************************************************)
TypeOf(id) == IF id = "n1" THEN "t1" ELSE "t2"

\* the node id with the indexed property tags
NodeOf(id, tags) == [type |-> TypeOf(id), title |-> "t", tags |-> tags]

\* the documents reset is called with: each node absent or present
Documents ==
  UNION {[ids -> PropValues] : ids \in SUBSET NodeIds}

NodesOf(doc) == [id \in DOMAIN doc |-> NodeOf(id, doc[id])]

\* the record of a call on the index
IndexCall(op, id, prop, newValue, oldValue, err) ==
  [op |-> op, id |-> id, prop |-> prop, newValue |-> newValue,
   oldValue |-> oldValue, pre |-> index, err |-> err]

NoValue == [arr |-> TRUE, vs |-> <<>>]

\* no call is in progress
NoIndexCall ==
  [op |-> "none", id |-> "", prop |-> "", newValue |-> NoValue,
   oldValue |-> NoValue, pre |-> EmptyIndex, err |-> NoErr]

InitIndexCalls ==
  /\ nodes = <<>>
  /\ index = EmptyIndex
  /\ indexType \in {NoType, "t1"}
  /\ indexErr = NoErr
  /\ icall = NoIndexCall
  /\ container = <<>>
  /\ content = <<>>
  /\ annos = <<>>
  /\ cannos = <<>>
  /\ last = <<>>
  /\ NoEmitter
  /\ NoTransaction
  /\ NoAdapter
  /\ NoSchema
  /\ NoSurfaces

otherThanIndex == <<nodes, docVars, emitterVars, txVars, storeVars, schemaVars, surfaceVars>>

\* index.create(node), node[property] being tags
CallCreate(id, tags) ==
  /\ icall = NoIndexCall
  /\ LET r == IndexCreate(index, id, NodeOf(id, tags))
     IN /\ index' = r.idx
        /\ indexErr' = r.err
        /\ icall' = IndexCall("create", id, "tags", tags, NoValue, r.err)
  /\ UNCHANGED <<otherThanIndex, indexType>>

\* index.delete(node), node[property] being tags
CallDelete(id, tags) ==
  /\ icall = NoIndexCall
  /\ LET r == IndexDelete(index, id, NodeOf(id, tags))
     IN /\ index' = r.idx
        /\ indexErr' = r.err
        /\ icall' = IndexCall("delete", id, "tags", NoValue, tags, r.err)
  /\ UNCHANGED <<otherThanIndex, indexType>>

\* index.update(node, [id, prop], newValue, oldValue)
CallUpdate(id, prop, newValue, oldValue) ==
  /\ icall = NoIndexCall
  /\ LET r == IndexUpdate(index, indexType, id, NodeOf(id, newValue), prop,
                          newValue, oldValue)
     IN /\ index' = r.idx
        /\ indexErr' = r.err
        /\ icall' = IndexCall("update", id, prop, newValue, oldValue, r.err)
  /\ UNCHANGED <<otherThanIndex, indexType>>

\* index.reset(data)
CallReset(doc) ==
  /\ icall = NoIndexCall
  /\ index' = IndexReset(indexType, NodesOf(doc))
  /\ indexErr' = NoErr
  /\ icall' = IndexCall("reset", "", "", NoValue, NoValue, NoErr)
  /\ UNCHANGED <<otherThanIndex, indexType>>

\* the call has returned or thrown; the caller goes on
CallReturn ==
  /\ icall # NoIndexCall
  /\ icall' = NoIndexCall
  /\ UNCHANGED <<otherThanIndex, index, indexType, indexErr>>

NextIndexCalls ==
  \/ \E id \in NodeIds, tags \in PropValues : CallCreate(id, tags)
  \/ \E id \in NodeIds, tags \in PropValues : CallDelete(id, tags)
  \/ \E id \in NodeIds, prop \in {"tags", "title"}, nv \in PropValues,
        ov \in PropValues : CallUpdate(id, prop, nv, ov)
  \/ \E doc \in Documents : CallReset(doc)
  \/ CallReturn

SpecIndexCalls == InitIndexCalls /\ [][NextIndexCalls]_vars

(***************************************************************************)
(* Properties of SpecIndexCalls                                            *)
(***************************************************************************)
\* the values of a property value, a scalar being a one-element sequence
ValuesOf(p) == {AsArray(p)[i] : i \in 1..Len(AsArray(p))}

\* index.select(node) for the node of the call
Selected == Select(indexType, NodeOf(icall.id, icall.newValue))

\* C26: create(node) inserts the node, under every value of its indexing
\* property, only if select(node) holds; a create call for a node that
\* select rejects leaves the index unchanged, and an index restricted to a
\* type never holds a node of another type.
C26_CreateOnlySelected ==
  /\ (icall.op = "create" /\ Selected) =>
       \A v \in ValuesOf(icall.newValue) : icall.id \in IndexGet(index, v)
  /\ (icall.op = "create" /\ ~Selected) => index = icall.pre
  /\ \A v \in Values : \A id \in IndexGet(index, v) : Select(indexType, NodeOf(id, NoValue))

\* the node of the call was indexed under every value of oldValue
IndexedUnderOld ==
  \A v \in ValuesOf(icall.oldValue) : icall.id \in IndexGet(icall.pre, v)

\* C27: update(node, path, newValue, oldValue) leaves the index unchanged
\* and raises no error when the property of path is not the indexing
\* property or select(node) is false; otherwise, the node being indexed
\* under oldValue, it raises no error either, the node is afterwards in
\* the bucket of every value of newValue and in none of a value of oldValue
\* that is not one of newValue, and the other entries are unchanged, a
\* scalar counting as a one-element sequence.
C27_UpdateMovesNode ==
  icall.op = "update" =>
    IF icall.prop # "tags" \/ ~Selected
      THEN index = icall.pre /\ icall.err = NoErr
      ELSE IndexedUnderOld =>
           /\ icall.err = NoErr
           /\ \A v \in Values :
                /\ v \in ValuesOf(icall.newValue) => icall.id \in IndexGet(index, v)
                /\ v \in ValuesOf(icall.oldValue) \ ValuesOf(icall.newValue) =>
                     icall.id \notin IndexGet(index, v)
                /\ v \notin ValuesOf(icall.oldValue) \cup ValuesOf(icall.newValue) =>
                     (icall.id \in IndexGet(index, v)
                        <=> icall.id \in IndexGet(icall.pre, v))
                /\ IndexGet(index, v) \ {icall.id} = IndexGet(icall.pre, v) \ {icall.id}

\* the node of the call was indexed under no value of oldValue
UnderNoOld ==
  \A v \in ValuesOf(icall.oldValue) : icall.id \notin IndexGet(icall.pre, v)

\* the node of the call lacked an entry under some value of oldValue
MissingUnderOld ==
  \E v \in ValuesOf(icall.oldValue) : icall.id \notin IndexGet(icall.pre, v)

\* the call is update on a selected node and the indexing property
SelectedUpdate == icall.op = "update" /\ icall.prop = "tags" /\ Selected

\* C32 as stated: update on a selected node and the indexing property, the
\* node not being indexed under oldValue, raises an error, inserts no entry
\* and leaves the node indexed under neither oldValue nor newValue; delete
\* of a node that is not indexed raises.
C32_UpdateMissingRaises ==
  /\ (SelectedUpdate /\ UnderNoOld) =>
       /\ icall.err # NoErr
       /\ index.ent \subseteq icall.pre.ent
       /\ \A v \in ValuesOf(icall.oldValue) \cup ValuesOf(icall.newValue) :
            icall.id \notin IndexGet(index, v)
  /\ (icall.op = "delete" /\ \A v \in Values : icall.id \notin IndexGet(icall.pre, v)) =>
       icall.err # NoErr

\* C32: update on a selected node and the indexing property, the node
\* lacking an entry under some value of oldValue, raises an error and
\* inserts no entry: the index afterwards holds the entries it held, less
\* those of the node under the values of oldValue that precede the failing
\* one, so the node is under a value of newValue only if it was before;
\* delete of a node lacking an entry under some value of its property
\* raises likewise.  With an empty array as oldValue update raises nothing
\* and inserts the node under every value of newValue, and delete of a node
\* whose property is an empty array is a no-op.
C32_MissingEntryRaises ==
  /\ (SelectedUpdate /\ MissingUnderOld) =>
       /\ icall.err # NoErr
       /\ index.ent \subseteq icall.pre.ent
       /\ icall.pre.ent \ index.ent \subseteq
            {<<v, icall.id>> : v \in ValuesOf(icall.oldValue)}
  /\ (icall.op = "delete" /\ MissingUnderOld) =>
       /\ icall.err # NoErr
       /\ index.ent \subseteq icall.pre.ent
  /\ (SelectedUpdate /\ ValuesOf(icall.oldValue) = {}) =>
       /\ icall.err = NoErr
       /\ \A v \in ValuesOf(icall.newValue) : icall.id \in IndexGet(index, v)
  /\ (icall.op = "delete" /\ ValuesOf(icall.oldValue) = {}) =>
       icall.err = NoErr /\ index = icall.pre

\* update of a node that was never created raised, nothing was inserted
\* for the newValue it names, and another node's entry stayed
C32_Witness ==
  /\ SelectedUpdate
  /\ MissingUnderOld
  /\ ValuesOf(icall.newValue) # {}
  /\ icall.err # NoErr
  /\ \A v \in Values : icall.id \notin IndexGet(index, v)
  /\ index.ent # {}


(***************************************************************************)
(* Properties of SpecEmitter                                               *)
(***************************************************************************)
\* C18: whatever connect / on / _off / disconnect calls came before, emit
\* calls the listeners of the event in descending priority order, and
\* listeners of equal priority in the order of their registration.
C18_PriorityOrder ==
  (call.op = "emit" /\ call.err = NoErr) =>
    \A i, j \in 1..Len(call.called) :
      i < j =>
        \/ call.called[i].priority > call.called[j].priority
        \/ /\ call.called[i].priority = call.called[j].priority
           /\ call.called[i].reg < call.called[j].reg

\* C19: when a listener throws during emit, the remaining listeners of the
\* event are still called in that emit, and the bindings of the emitter
\* are afterwards what they were.
C19_ThrowIsolated ==
  (call.op = "emit" /\ call.event \in DOMAIN call.pre /\ call.edit = NoEdit) =>
    /\ call.called = call.pre[call.event]
    /\ events = call.pre

\* the bindings of the emitted event after the call
BoundNow == IF call.event \in DOMAIN events THEN events[call.event] ELSE <<>>

\* the binding is one the edit of the handler names
Edited(b) == b.method = call.edit.method /\ b.context = call.edit.context

\* C28: emit calls the listeners of the list bound when it started: a
\* listener a handler adds to the event during the emit is not called in
\* that emit, one an earlier handler removes during the emit is still
\* called in it, and afterwards the added listener is bound and the
\* removed one is not, which is what the next emit starts from.
C28_EmitUsesSnapshot ==
  (/\ call.op = "emit"
   /\ call.event \in DOMAIN call.pre
   /\ call.err # "ListenerError") =>
    /\ call.err = NoErr
    /\ call.called = call.pre[call.event]
    /\ call.edit.kind = "on" =>
         /\ \A j \in 1..Len(call.called) : call.called[j].reg # regCount
         /\ \E i \in 1..Len(BoundNow) : BoundNow[i].reg = regCount /\ Edited(BoundNow[i])
    /\ call.edit.kind = "off" =>
         /\ \E j \in 1..Len(call.called) : Edited(call.called[j])
         /\ \A i \in 1..Len(BoundNow) : ~Edited(BoundNow[i])

\* the first handler removed the listener called second
C28_Witness ==
  /\ call.op = "emit"
  /\ call.err = NoErr
  /\ call.edit.kind = "off"
  /\ Len(call.called) >= 2
  /\ Edited(call.called[2])
  /\ ~Edited(call.called[1])

\* C29: on(event, method, context, options) registers the listener with
\* the priority options.priority, and on(event, method, context) without
\* options registers it with the priority 0; neither call fails.
C29_OnPriority ==
  call.op = "on" =>
    /\ call.err = NoErr
    /\ \E i \in 1..Len(BoundNow) :
         /\ BoundNow[i].reg = regCount
         /\ BoundNow[i].priority = IF call.nargs = 4 THEN call.priority ELSE 0

\* C30: whatever connect / on / _off / disconnect calls were made, no
\* event of the emitter has an empty list of listeners, and an emit that
\* returns gives true exactly when it called at least one listener.
C30_NoEmptyList ==
  /\ \A e \in DOMAIN events : events[e] # <<>>
  /\ (call.op = "emit" /\ call.err = NoErr) => (call.ret <=> Len(call.called) >= 1)

\* disconnect took the last listeners of an event that had two
C30_Witness ==
  /\ call.op = "disconnect"
  /\ \E e \in DOMAIN call.pre : e \notin DOMAIN events /\ Len(call.pre[e]) >= 2

\* C31: disconnect(context) removes every binding whose context is that
\* object, for every event, also when the context is bound several times
\* or with several methods to one event; the bindings of the other
\* contexts stay, in the order they were in, and an event left without a
\* binding is no longer held.
C31_DisconnectRemovesAll ==
  call.op = "disconnect" =>
    /\ call.err = NoErr
    /\ DOMAIN events \subseteq DOMAIN call.pre
    /\ \A e \in DOMAIN call.pre :
         LET Other(b) == b.context # call.context
             rest == SelectSeq(call.pre[e], Other)
         IN IF rest = <<>> THEN e \notin DOMAIN events
            ELSE e \in DOMAIN events /\ events[e] = rest

\* the context was bound to one event with two methods, beside a binding
\* of another context, and to a second event
C31_Witness ==
  /\ call.op = "disconnect"
  /\ \E e \in DOMAIN call.pre :
       /\ \E i, j \in 1..Len(call.pre[e]) :
            /\ i # j
            /\ call.pre[e][i].context = call.context
            /\ call.pre[e][j].context = call.context
            /\ call.pre[e][i].method # call.pre[e][j].method
  /\ \E e \in DOMAIN call.pre :
       \E i \in 1..Len(call.pre[e]) : call.pre[e][i].context # call.context

(***************************************************************************)
(* SurfaceManager (src/unnamed/part_000, lines 214-296).  A surface is     *)
(* known to the manager by its name; surfaces s1 and s3 have the same      *)
(* name.  Of a surface the manager uses getName, setFocused and            *)
(* setSelection: surf holds, for each surface, the focus flag and the      *)
(* selection these set.                                                    *)
(***************************************************************************)
SurfaceIds == {"s1", "s2", "s3"}
SurfaceNames == {"body", "title"}
SurfaceSelections == {"sel0", "sel1"}
NoSurface == ""
NoSelection == "null"

\* surface.getName()
GetName(s) == IF s = "s2" THEN "title" ELSE "body"

\* surface.setFocused(val) on the surfaces' state sf
SetFocused(sf, s, val) == [sf EXCEPT ![s].focused = val]

\* surface.setSelection(sel) on the surfaces' state sf
SetSelection(sf, s, sel) == [sf EXCEPT ![s].selection = sel]

\* the manager and the surfaces as one value
Manager == [surfaces |-> surfaces, focusedSurface |-> focusedSurface, surf |-> surf]

\* SurfaceManager.didFocus without the setFocused(false) on the surface
\* that had the focus
DidFocus_KeepsFlag(m, surface) ==
  [m EXCEPT !.focusedSurface = surface]

\* SurfaceManager.didFocus(surface)
DidFocus(m, surface) ==
  LET sf == IF m.focusedSurface # NoSurface /\ surface # m.focusedSurface
              THEN SetFocused(m.surf, m.focusedSurface, FALSE)
              ELSE m.surf
  IN [m EXCEPT !.surf = sf, !.focusedSurface = surface]

\* SurfaceManager.onDocumentChange(change, info): surfaceId "" stands for a
\* change without a surfaceId
OnDocumentChange(m, change, info) ==
  IF ~info.replay THEN m
  ELSE IF change.after.surfaceId = "" THEN m
  ELSE IF change.after.surfaceId \notin DOMAIN m.surfaces THEN m
  ELSE LET surface == m.surfaces[change.after.surfaceId]
           m1 == IF m.focusedSurface # surface THEN DidFocus(m, surface) ELSE m
       IN [m1 EXCEPT !.surf = SetSelection(m1.surf, surface, change.after.selection)]

\* the record of a call on the manager
ManagerCall(op, change, info) ==
  [op |-> op, change |-> change, info |-> info, pre |-> Manager]

NoChange == [after |-> [selection |-> NoSelection, surfaceId |-> ""]]
NoInfo == [replay |-> FALSE]

\* no call is in progress
NoManagerCall ==
  [op |-> "none", change |-> NoChange, info |-> NoInfo,
   pre |-> [surfaces |-> <<>>, focusedSurface |-> NoSurface, surf |-> <<>>]]

\* new SurfaceManager(doc), the surfaces not yet focused and without selection
InitSurface ==
  /\ nodes = <<>>
  /\ index = EmptyIndex
  /\ indexType = NoType
  /\ indexErr = NoErr
  /\ icall = <<>>
  /\ container = <<>>
  /\ content = <<>>
  /\ annos = <<>>
  /\ cannos = <<>>
  /\ last = <<>>
  /\ NoEmitter
  /\ NoTransaction
  /\ NoAdapter
  /\ NoSchema
  /\ surfaces = <<>>
  /\ focusedSurface = NoSurface
  /\ surf = [s \in SurfaceIds |-> [focused |-> FALSE, selection |-> NoSelection]]
  /\ mcall = NoManagerCall

otherThanSurfaces ==
  <<indexVars, docVars, emitterVars, txVars, storeVars, schemaVars>>

\* manager.registerSurface(surface)
RegisterSurface(surface) ==
  /\ mcall = NoManagerCall
  /\ surfaces' = [n \in DOMAIN surfaces \cup {GetName(surface)} |->
                    IF n = GetName(surface) THEN surface ELSE surfaces[n]]
  /\ mcall' = ManagerCall("registerSurface", NoChange, NoInfo)
  /\ UNCHANGED <<otherThanSurfaces, focusedSurface, surf>>

\* manager.unregisterSurface(surface)
UnregisterSurface(surface) ==
  /\ mcall = NoManagerCall
  /\ surfaces' = [n \in DOMAIN surfaces \ {GetName(surface)} |-> surfaces[n]]
  /\ focusedSurface' = IF focusedSurface = surface THEN NoSurface
                       ELSE focusedSurface
  /\ mcall' = ManagerCall("unregisterSurface", NoChange, NoInfo)
  /\ UNCHANGED <<otherThanSurfaces, surf>>

\* a surface takes the focus and tells the manager: manager.didFocus(surface)
SurfaceFocus(surface) ==
  /\ mcall = NoManagerCall
  /\ LET m == DidFocus([Manager EXCEPT !.surf = SetFocused(surf, surface, TRUE)],
                       surface)
     IN /\ focusedSurface' = m.focusedSurface
        /\ surf' = m.surf
  /\ mcall' = ManagerCall("didFocus", NoChange, NoInfo)
  /\ UNCHANGED <<otherThanSurfaces, surfaces>>

\* the user selects in a surface
SurfaceSelect(surface, sel) ==
  /\ mcall = NoManagerCall
  /\ surf' = SetSelection(surf, surface, sel)
  /\ mcall' = ManagerCall("select", NoChange, NoInfo)
  /\ UNCHANGED <<otherThanSurfaces, surfaces, focusedSurface>>

\* the document emits 'document:changed' with change and info
DocumentChanged(change, info) ==
  /\ mcall = NoManagerCall
  /\ LET m == OnDocumentChange(Manager, change, info)
     IN /\ surfaces' = m.surfaces
        /\ focusedSurface' = m.focusedSurface
        /\ surf' = m.surf
  /\ mcall' = ManagerCall("onDocumentChange", change, info)
  /\ UNCHANGED otherThanSurfaces

\* the call has returned; the caller goes on
ManagerReturn ==
  /\ mcall # NoManagerCall
  /\ mcall' = NoManagerCall
  /\ UNCHANGED <<otherThanSurfaces, surfaces, focusedSurface, surf>>

\* the changes the document reports: a surfaceId that is registered or
\* not, or none
Changes ==
  {[after |-> [selection |-> sel, surfaceId |-> id]] :
     sel \in SurfaceSelections, id \in SurfaceNames \cup {"", "other"}}

NextSurface ==
  \/ \E s \in SurfaceIds : RegisterSurface(s)
  \/ \E s \in SurfaceIds : UnregisterSurface(s)
  \/ \E s \in SurfaceIds : SurfaceFocus(s)
  \/ \E s \in SurfaceIds, sel \in SurfaceSelections : SurfaceSelect(s, sel)
  \/ \E c \in Changes, replay \in BOOLEAN : DocumentChanged(c, [replay |-> replay])
  \/ ManagerReturn

SpecSurface == InitSurface /\ [][NextSurface]_vars

(***************************************************************************)
(* Properties of SpecSurface                                               *)
(***************************************************************************)
\* the surface a document change names, NoSurface when it names none that
\* is registered
Named ==
  IF mcall.change.after.surfaceId \in DOMAIN mcall.pre.surfaces
    THEN mcall.pre.surfaces[mcall.change.after.surfaceId]
    ELSE NoSurface

\* C35: the manager reacts to a document change only when it is a replay.
\* A change without the replay flag, and a replay whose surfaceId is
\* missing or not registered, change neither the focused surface nor any
\* surface's focus flag or selection.  After a replay naming a registered
\* surfaceId that surface is the focused surface and has the selection
\* change.after.selection, the surface that had the focus before, if
\* another, is unfocused, and nothing else of any surface is changed.
C35_ReplayOnly ==
  mcall.op = "onDocumentChange" =>
    /\ surfaces = mcall.pre.surfaces
    /\ IF ~mcall.info.replay \/ Named = NoSurface
         THEN focusedSurface = mcall.pre.focusedSurface /\ surf = mcall.pre.surf
         ELSE /\ focusedSurface = Named
              /\ surf[Named].selection = mcall.change.after.selection
              /\ surf[Named].focused = mcall.pre.surf[Named].focused
              /\ mcall.pre.focusedSurface \notin {NoSurface, Named} =>
                   /\ ~surf[mcall.pre.focusedSurface].focused
                   /\ surf[mcall.pre.focusedSurface].selection =
                        mcall.pre.surf[mcall.pre.focusedSurface].selection
              /\ \A s \in SurfaceIds \ {Named, mcall.pre.focusedSurface} :
                   surf[s] = mcall.pre.surf[s]

\* a replay named a registered surface while another surface, focused and
\* with a selection of its own, had the focus
C35_Witness ==
  /\ mcall.op = "onDocumentChange"
  /\ mcall.info.replay
  /\ Named # NoSurface
  /\ mcall.pre.focusedSurface \notin {NoSurface, Named}
  /\ mcall.pre.surf[mcall.pre.focusedSurface].focused
  /\ mcall.pre.surf[Named].selection # mcall.change.after.selection
  /\ focusedSurface = Named

\* a change without the replay flag named a registered surface that did
\* not have the focus
C35_WitnessFresh ==
  /\ mcall.op = "onDocumentChange"
  /\ ~mcall.info.replay
  /\ Named # NoSurface
  /\ mcall.pre.focusedSurface \notin {NoSurface, Named}
  /\ mcall.pre.surf[Named].selection # mcall.change.after.selection

====
